---------------------------- MODULE Spec2Model ----------------------------
(***************************************************************************)
(* CXL region binding and HDM decoder programming.                         *)
(*                                                                         *)
(* The module holds four specifications over one set of variables:         *)
(*   SpecMath      the interleave conversions of drivers/cxl/cxl.h         *)
(*   SpecSanitize  sanitize_region() of drivers/cxl/region.c               *)
(*   SpecHdm       cxl_commit_decoder()/cxl_disable_decoder() and the      *)
(*                 enumeration of drivers/cxl/core/hdm.c                   *)
(*   Spec          the configuration setters and cxl_region_probe()        *)
(*                                                                         *)
(* Sizes and addresses are counted in MiB (every size the driver accepts   *)
(* is a multiple of 256 MiB), so 2^32 bytes is 4096 and 2^31 bytes 2048.   *)
(***************************************************************************)
EXTENDS Integers, Sequences, FiniteSets, TLC

VARIABLES
    m_fn, m_in, m_out, m_back,  \* SpecMath: conversion, input, result, result of the inverse
    config,                     \* cxl_region.config: size, uuid, ways, granularity, targets
    driver,                     \* memdev -> is dev.driver set (driver-bound)
    op, ret,                    \* the last operation run and what it returned
    hw,                         \* slot -> the HDM decoder registers of the port
    cxld,                       \* slot -> struct cxl_decoder built for the slot
    is_endpoint,                \* is the port an endpoint port
    pc,                         \* "boot", "idle", or "wait" inside wait_for_commit()
    cur,                        \* the slot of the call in progress or last made
    elapsed,                    \* ms since wait_for_commit() took its deadline
    writes,                     \* registers written by the last call, in order
    active,                     \* cxl_region.active
    staged_list,                \* cxl_region.staged_list, head first
    commit_list,                \* cxl_region.commit_list, head first
    res,                        \* cxl_region.res and whether the range is still reserved
    rootd,                      \* the root decoder the region is a child of
    busy,                       \* <<port, id>> of the decoders handed out and not put back
    alloc_rc,                   \* what allocate_address_space() returned in the last bind
    ida,                        \* memregion ids that are allocated
    next_region_id,             \* cxl_root_decoder.next_region_id
    regions,                    \* the region objects ever allocated, oldest first
    dev_lock,                   \* who holds the region's device lock
    dev_driver,                 \* the region's dev->driver is set
    visible,                    \* how many targetN attributes sysfs shows
    cxled_cxlr,                 \* endpoint decoder -> cxled->cxlr, the region it belongs to
    root_decoders,              \* the decoders under the root port of targets[0]
    ours,                       \* what find_rootd() returned in the last bind
    enum_log,                   \* register reads and delays of the enumeration, in order
    n_committed,                \* devm_cxl_enumerate_decoders(): committed, the slots sampled so
    n_failed                    \* devm_cxl_enumerate_decoders(): failed, the slots whose init failed

mathVars == <<m_fn, m_in, m_out, m_back>>
bindVars == <<active, staged_list, commit_list, res, rootd, busy, alloc_rc,
              root_decoders, ours>>
idVars == <<ida, next_region_id, regions>>
setVars == <<dev_lock, dev_driver, visible, cxled_cxlr>>
regionVars == <<config, driver, bindVars, idVars, setVars>>
enumVars == <<enum_log, n_committed, n_failed>>
hdmVars == <<hw, cxld, is_endpoint, pc, cur, elapsed, writes, enumVars>>

vars == <<m_fn, m_in, m_out, m_back, config, driver, op, ret,
          hw, cxld, is_endpoint, pc, cur, elapsed, writes,
          active, staged_list, commit_list, res, rootd, busy, alloc_rc,
          ida, next_region_id, regions, dev_lock, dev_driver, visible, cxled_cxlr,
          root_decoders, ours, enum_log, n_committed, n_failed>>

(***************************************************************************)
(* Bounds of the model                                                     *)
(***************************************************************************)
MaxGranExp == 7         \* granularity inputs are 2^0 .. 2^(8 + MaxGranExp)
MaxWaysInput == 17      \* sanitize_region is tried on ways 0 .. MaxWaysInput
NumSlots == 2           \* decoder_count of the port's HDM capability
TargetCount == 2        \* target_count of the port's HDM capability
DecodersPerPort == 1    \* decoders cxl_get_decoder() can hand out per port

(***************************************************************************)
(* Program constants                                                       *)
(***************************************************************************)
CXL_DECODER_MAX_INTERLEAVE == 16
SZ_256M == 256          \* in MiB
INT_WRAP == 4096        \* 2^32 bytes in MiB: the width of int

COMMIT_TIMEOUT_MS == 10
ALL_ONES == -1          \* a register word that reads 0xffffffff

NULL == "null"
TRAP == -1              \* marks a divide fault among the remainders
Memdevs == {"mem0", "mem1", "mem2", "mem3"}
Slots == 0..(CXL_DECODER_MAX_INTERLEAVE - 1)

(***************************************************************************)
(* Kernel helpers                                                          *)
(***************************************************************************)
RECURSIVE Pow2(_)
Pow2(n) == IF n <= 0 THEN 1 ELSE 2 * Pow2(n - 1)

\* ilog2(): index of the highest set bit (floor of log2), for n >= 1
RECURSIVE ilog2(_)
ilog2(n) == IF n <= 1 THEN 0 ELSE 1 + ilog2(n \div 2)

\* is_power_of_2(): n != 0 && (n & (n - 1)) == 0
is_power_of_2(n) == n > 0 /\ Pow2(ilog2(n)) = n

U8(n)  == n % 256
U16(n) == n % 65536

(***************************************************************************)
(* Interleave math, drivers/cxl/cxl.h                                      *)
(***************************************************************************)
cxl_to_interleave_granularity(ig) == 256 * Pow2(U16(ig))

\* a decoding that takes every encoding for a power of two
cxl_to_interleave_ways_pow2(eniw) == Pow2(U8(eniw) % 16)

cxl_to_interleave_ways(eniw) ==
    LET e == U8(eniw) IN
    IF e \in 0..4 THEN Pow2(e)
    ELSE IF e \in 8..10 THEN 3 * Pow2(e - 8)
    ELSE 0

cxl_from_ways(ways) ==
    LET w == U8(ways) IN
    IF is_power_of_2(w) THEN ilog2(w) ELSE (w \div 3) + 8

\* a conversion that is off by one exponent
cxl_from_granularity_off(g) == ilog2(U16(g)) - 7

cxl_from_granularity(g) == ilog2(U16(g)) - 8

(***************************************************************************)
(* SpecMath: the conversions applied to inputs drawn from bounded sets     *)
(***************************************************************************)
WaysDomain == {1, 2, 4, 8, 16, 3, 6, 12}
EniwDomain == {0, 1, 2, 3, 4, 8, 9, 10}
GranEncDomain == 0..6
GranDomain == {256 * Pow2(e) : e \in GranEncDomain}
GranInputs == {Pow2(e) : e \in 0..(8 + MaxGranExp)}

MathIdle ==
    /\ m_fn = "none"
    /\ m_in = 0
    /\ m_out = 0
    /\ m_back = 0

NoRes == [pool |-> FALSE, reserved |-> FALSE, start |-> 0, size |-> 0]

BindIdle ==
    /\ active = FALSE
    /\ staged_list = <<>>
    /\ commit_list = <<>>
    /\ res = NoRes
    /\ rootd = [pmem_t3 |-> TRUE, interleave_ways |-> 1,
                interleave_granularity |-> 256, target |-> <<0>>]
    /\ busy = {}
    /\ alloc_rc = "none"
    /\ root_decoders = <<rootd>>
    /\ ours = "unset"

IdIdle ==
    /\ ida = {0}
    /\ next_region_id = 0
    /\ regions = <<>>

\* the endpoint decoders a target attribute can name
EndpointDecoders == {"decoder3.0", "decoder4.0"}

SetIdle ==
    /\ cxled_cxlr = [d \in EndpointDecoders |-> NULL]
    /\ dev_lock = "none"
    /\ dev_driver = FALSE
    /\ visible = 0

RegionIdle ==
    /\ config = [size |-> 0, uuid |-> NULL, interleave_ways |-> 0,
                 interleave_granularity |-> 0, targets |-> [i \in Slots |-> NULL]]
    /\ driver = [m \in Memdevs |-> TRUE]
    /\ BindIdle
    /\ IdIdle
    /\ SetIdle

HdmIdle ==
    /\ hw = <<>>
    /\ cxld = <<>>
    /\ is_endpoint = FALSE
    /\ pc = "idle"
    /\ cur = 0
    /\ elapsed = 0
    /\ writes = <<>>
    /\ enum_log = <<>>
    /\ n_committed = 0
    /\ n_failed = 0

InitMath ==
    /\ MathIdle
    /\ RegionIdle
    /\ HdmIdle
    /\ op = "none"
    /\ ret = "0"

\* ways -> encoding -> ways
WaysRoundTrip ==
    \E w \in 0..255 :
        /\ m_fn' = "from_ways"
        /\ m_in' = w
        /\ m_out' = cxl_from_ways(w)
        /\ m_back' = cxl_to_interleave_ways(cxl_from_ways(w))
        /\ UNCHANGED <<regionVars, hdmVars, op, ret>>

\* encoding -> ways -> encoding
EniwRoundTrip ==
    \E e \in 0..255 :
        /\ m_fn' = "to_ways"
        /\ m_in' = e
        /\ m_out' = cxl_to_interleave_ways(e)
        /\ m_back' = cxl_from_ways(cxl_to_interleave_ways(e))
        /\ UNCHANGED <<regionVars, hdmVars, op, ret>>

\* granularity -> encoding -> granularity
GranRoundTrip ==
    \E g \in GranInputs :
        /\ m_fn' = "from_granularity"
        /\ m_in' = g
        /\ m_out' = cxl_from_granularity(g)
        /\ m_back' = IF cxl_from_granularity(g) >= 0
                     THEN cxl_to_interleave_granularity(cxl_from_granularity(g))
                     ELSE -1
        /\ UNCHANGED <<regionVars, hdmVars, op, ret>>

\* encoding -> granularity -> encoding
GranEncRoundTrip ==
    \E e \in 0..15 :
        /\ m_fn' = "to_granularity"
        /\ m_in' = e
        /\ m_out' = cxl_to_interleave_granularity(e)
        /\ m_back' = cxl_from_granularity(cxl_to_interleave_granularity(e))
        /\ UNCHANGED <<regionVars, hdmVars, op, ret>>

NextMath ==
    \/ WaysRoundTrip
    \/ EniwRoundTrip
    \/ GranRoundTrip
    \/ GranEncRoundTrip

SpecMath == InitMath /\ [][NextMath]_vars

(***************************************************************************)
(* Claims on the interleave math                                           *)
(***************************************************************************)

\* C8: cxl_from_ways is the exact inverse of cxl_to_interleave_ways: for
\* every ways value in {1,2,4,8,16,3,6,12} the round trip through the
\* encoding gives the ways back, and for every valid encoding in
\* {0,1,2,3,4,8,9,10} the round trip through the ways gives the encoding
\* back.
C8_WaysInverse ==
    /\ (m_fn = "from_ways" /\ m_in \in WaysDomain) => m_back = m_in
    /\ (m_fn = "to_ways" /\ m_in \in EniwDomain) => m_back = m_in

\* C9: the granularity conversions round-trip: from(to(e)) = e for every
\* encoding e in 0..6 and to(from(g)) = g for every granularity g in
\* {256, 512, 1024, 2048, 4096, 8192, 16384}.
C9_GranRoundTrip ==
    /\ (m_fn = "to_granularity" /\ m_in \in GranEncDomain) => m_back = m_in
    /\ (m_fn = "from_granularity" /\ m_in \in GranDomain) => m_back = m_in

C9_Witness ==
    /\ m_fn = "from_granularity"
    /\ m_in = 16384
    /\ m_out = 6
    /\ m_back = 16384

(***************************************************************************)
(* sanitize_region(), drivers/cxl/region.c                                 *)
(***************************************************************************)

\* is_cxl_region_configured(): a nonzero size and a first target
is_cxl_region_configured(cfg) ==
    /\ ~(cfg.size <= 0)
    /\ cfg.targets[0] # NULL

\* the ways the switch of cxl_is_interleave_ways_valid() lets through;
\* region.c passes the ways alone, so no root decoder takes part
cxl_is_interleave_ways_valid(ways) ==
    LET w == U8(ways) IN
    \/ w \in 0..4
    \/ w = 6
    \/ w = 8
    \/ w = 12
    \/ w = 16

\* cxl_is_interleave_granularity_valid(): a power of two, 16K at most;
\* region.c passes the granularity alone
cxl_is_interleave_granularity_valid(ig) ==
    /\ is_power_of_2(ig)
    /\ ig \div 32768 = 0

\* SZ_256M * iw, the product of two ints: it wraps at 2^32 bytes and is
\* negative from 2^31 bytes on (the kernel is built with wrapping overflow)
size_unit(iw) ==
    LET p == (SZ_256M * iw) % INT_WRAP IN
    IF p >= INT_WRAP \div 2 THEN p - INT_WRAP ELSE p

\* the alignment test without the wrap: the product taken exactly
size_unit_exact(iw) == SZ_256M * iw

\* cxlr->config.size % (SZ_256M * iw) in u64.  A negative int converts to
\* 2^64 - |d| bytes, above every size of the model, so the remainder is the
\* size itself.  d = 0 is a division by zero: TRAP stands for the divide
\* fault, and an architecture whose divide yields 0 leaves the size.
size_remainders(size, d) ==
    IF d > 0 THEN {size % d}
    ELSE IF d < 0 THEN {size}
    ELSE {TRAP, size}

\* the walk over the first iw target slots: the first slot that is empty
\* gives -ENXIO, the first that has no driver gives -ENODEV
RECURSIVE check_targets(_, _, _, _)
check_targets(cfg, drv, i, iw) ==
    IF ~(i < iw) THEN "0"
    ELSE IF cfg.targets[i] = NULL THEN "-ENXIO"
    ELSE IF ~drv[cfg.targets[i]] THEN "-ENODEV"
    ELSE check_targets(cfg, drv, i + 1, iw)

\* the set of outcomes of sanitize_region(): one return code, except where
\* the size test divides by zero
sanitize_region(cfg, drv) ==
    LET ig == cfg.interleave_granularity
        iw == cfg.interleave_ways
    IN
    IF ~is_cxl_region_configured(cfg) THEN {"-ENXIO"}
    ELSE IF ~cxl_is_interleave_ways_valid(iw) THEN {"-ENXIO"}
    ELSE IF ~cxl_is_interleave_granularity_valid(ig) THEN {"-ENXIO"}
    ELSE { IF r = TRAP THEN "oops"
           ELSE IF r # 0 THEN "-ENXIO"
           ELSE check_targets(cfg, drv, 0, iw)
           : r \in size_remainders(cfg.size, size_unit(iw)) }

(***************************************************************************)
(* SpecSanitize: sanitize_region() on configurations from bounded sets     *)
(***************************************************************************)
WaysInputs == 0..MaxWaysInput
GranCfgInputs == {0, 128, 256, 384, 16384, 32768}
SizeInputs == {0, 300} \cup {SZ_256M * k : k \in {1, 2, 3, 4, 6, 8, 12, 16, 24}}
DefectSlots == {-1, 0, 1, 2, 5, 11, 15}     \* -1: no such slot

\* every slot holds the bound mem0, but slot `missing` is empty and slot
\* `unbound` holds mem1
TargetPattern(missing, unbound) ==
    [i \in Slots |-> IF i = missing THEN NULL
                     ELSE IF i = unbound THEN "mem1"
                     ELSE "mem0"]

InitSanitize ==
    /\ MathIdle
    /\ HdmIdle
    /\ \E iw \in WaysInputs, ig \in GranCfgInputs, sz \in SizeInputs,
          missing \in DefectSlots, unbound \in DefectSlots :
            config = [size |-> sz, uuid |-> NULL, interleave_ways |-> iw,
                      interleave_granularity |-> ig,
                      targets |-> TargetPattern(missing, unbound)]
    /\ driver = [m \in Memdevs |-> m # "mem1"]
    /\ BindIdle
    /\ IdIdle
    /\ SetIdle
    /\ op = "none"
    /\ ret = "0"

Sanitize ==
    /\ op = "none"
    /\ \E r \in sanitize_region(config, driver) :
        /\ op' = "sanitize"
        /\ ret' = r
    /\ UNCHANGED regionVars
    /\ UNCHANGED <<mathVars, hdmVars>>

NextSanitize == Sanitize

SpecSanitize == InitSanitize /\ [][NextSanitize]_vars

(***************************************************************************)
(* Claims on sanitize_region()                                             *)
(***************************************************************************)
ValidWays == {1, 2, 3, 4, 6, 8, 12, 16}

ConfigWaysOk == config.interleave_ways \in ValidWays
ConfigGranOk ==
    /\ is_power_of_2(config.interleave_granularity)
    /\ config.interleave_granularity <= 16384
\* a multiple: a positive number of (256 MiB x ways) units
ConfigSizeOk ==
    /\ config.size > 0
    /\ config.size % (SZ_256M * config.interleave_ways) = 0
AllTargetsPresent ==
    \A i \in Slots : i < config.interleave_ways => config.targets[i] # NULL
AllTargetsBound ==
    \A i \in Slots : i < config.interleave_ways =>
        (config.targets[i] # NULL /\ driver[config.targets[i]])

\* C6: sanitize_region returns 0 if and only if ways is in
\* {1,2,3,4,6,8,12,16}, granularity is a power of two not above 16384, size
\* is a multiple of 256 MiB times ways, and each of the first `ways` target
\* slots is non-null and driver-bound; ways = 0 is never accepted.
C6_SanitizeAcceptsIff ==
    op = "sanitize" =>
        /\ (ret = "0") <=>
              (ConfigWaysOk /\ ConfigGranOk /\ ConfigSizeOk /\ AllTargetsBound)
        /\ config.interleave_ways = 0 => ret # "0"

\* C7: sanitize_region returns -ENODEV exactly when ways, granularity and
\* size are valid and every one of the first `ways` slots is non-null but
\* some target is not driver-bound; every other rejection is -ENXIO.
C7_NotReadyExactly ==
    op = "sanitize" =>
        LET otherwiseValid ==
                ConfigWaysOk /\ ConfigGranOk /\ ConfigSizeOk /\ AllTargetsPresent
        IN
        /\ (ret = "-ENODEV") <=> (otherwiseValid /\ ~AllTargetsBound)
        /\ (ret \in {"-ENXIO", "-ENODEV"} /\ ~(otherwiseValid /\ ~AllTargetsBound))
              => ret = "-ENXIO"

(***************************************************************************)
(* HDM decoder registers and decoders, drivers/cxl/core/hdm.c              *)
(*                                                                         *)
(* A 64-bit register pair holds MiB in its low word (0 .. 4095) and units  *)
(* of 4 GiB in its high word; ALL_ONES in both words is U64_MAX.           *)
(***************************************************************************)
Decoders == 0..(NumSlots - 1)
ZeroTL == <<0, 0, 0, 0>>

\* the control register and the base, size and target-list pairs of a slot
HwBlank ==
    [committed |-> FALSE, commit |-> FALSE, error |-> FALSE, lock |-> FALSE,
     ig |-> 0, iw |-> 0, type |-> FALSE,
     base_lo |-> 0, base_hi |-> 0, size_lo |-> 0, size_hi |-> 0,
     tl_lo |-> ZeroTL, tl_hi |-> ZeroTL]

\* a slot the firmware left committed: 2 ways over ports 0 and 1, 256 MiB
HwFirmware ==
    [HwBlank EXCEPT !.committed = TRUE, !.commit = TRUE, !.type = TRUE,
                    !.iw = 1, !.size_lo = SZ_256M, !.tl_lo = <<0, 1, 0, 0>>]
HwLocked == [HwFirmware EXCEPT !.lock = TRUE]
HwCorrupt == [HwBlank EXCEPT !.base_lo = ALL_ONES, !.base_hi = ALL_ONES]
HwBadWays == [HwBlank EXCEPT !.iw = 5]
HwInitStates == {HwBlank, HwFirmware, HwLocked, HwCorrupt, HwBadWays}

\* struct cxl_decoder with the range and targets of its variant
NoDecoder ==
    [present |-> FALSE, enable |-> FALSE, lock |-> FALSE,
     interleave_ways |-> 0, interleave_granularity |-> 0,
     start |-> 0, len |-> 0, expander |-> FALSE,
     nr_targets |-> 0, target |-> <<>>]

\* ioread64_hi_lo()
ioread64_hi_lo(lo, hi) ==
    IF lo = ALL_ONES /\ hi = ALL_ONES THEN ALL_ONES ELSE hi * INT_WRAP + lo

\* upper_32_bits() and lower_32_bits() of a byte count held in MiB
upper_32_bits(n) == n \div INT_WRAP
lower_32_bits(n) == n % INT_WRAP
\* GENMASK(31, 28) & word: the 256 MiB digit of the low word
genmask_31_28(word) == (word \div SZ_256M) * SZ_256M
\* upper_32_bits() of a plain number: ((n >> 16) >> 16)
upper_32_bits_raw(n) == (n \div 65536) \div 65536

\* size_lo + size_hi in u32 is zero: the low word is lo MiB = lo * 2^20 and
\* the high word is the number hi, so the sum is 0 modulo 2^32 when both
\* are zero or when hi is a multiple of 2^20 that fills lo up to 4096 MiB
MIB == 1048576          \* 2^20: bytes in the unit of the low word
u32_sum_is_zero(lo, hi) ==
    IF lo = ALL_ONES THEN hi = 1
    ELSE IF hi = ALL_ONES THEN FALSE
    ELSE hi % MIB = 0 /\ (lo + hi \div MIB) % INT_WRAP = 0

\* region.c and hdm.c call the two encoders of cxl.h by these names
cxl_to_eniw(ways) == cxl_from_ways(ways)
cxl_to_ig(g) == cxl_from_granularity(g)

\* flags that do not look at the committed bit
decoder_flags_unconditional(h) == [enable |-> TRUE, lock |-> h.lock]

\* "switch decoders are always enabled if committed": ENABLE, and LOCK with
\* it, are taken from a control register whose committed bit is set
decoder_flags(h) == [enable |-> h.committed, lock |-> h.committed /\ h.lock]

\* a test of the range that lets every value through
invalid_resource_range_never(base, size) == FALSE

\* "Invalid resource range": base or size is U64_MAX
invalid_resource_range(base, size) == base = ALL_ONES \/ size = ALL_ONES

\* init_hdm_decoder(): the decoder a slot's registers describe, or a failure
init_hdm_decoder(h, endpoint) ==
    LET base == ioread64_hi_lo(h.base_lo, h.base_hi)
        size == IF ~h.committed THEN 0 ELSE ioread64_hi_lo(h.size_lo, h.size_hi)
        ways == cxl_to_interleave_ways(h.iw)
        target_list == h.tl_lo \o h.tl_hi
    IN
    IF invalid_resource_range(base, size) THEN [rc |-> "-ENXIO", decoder |-> NoDecoder]
    ELSE IF ways = 0 THEN [rc |-> "-ENXIO", decoder |-> NoDecoder]
    ELSE [rc |-> "0",
          decoder |->
            [present |-> TRUE,
             enable |-> decoder_flags(h).enable,
             lock |-> decoder_flags(h).lock,
             interleave_ways |-> ways,
             interleave_granularity |-> cxl_to_interleave_granularity(h.ig),
             start |-> base, len |-> size,
             expander |-> h.type,
             nr_targets |-> IF endpoint THEN 0 ELSE TargetCount,
             target |-> IF endpoint THEN <<>>
                        ELSE [i \in 1..TargetCount |->
                                IF i <= ways THEN target_list[i] ELSE 0]]]

\* devm_cxl_enumerate_decoders(): one decoder per slot whose init succeeds;
\* -ENXIO if every slot failed
Enumerate ==
    /\ pc = "boot"
    /\ LET built == [d \in Decoders |-> init_hdm_decoder(hw[d], is_endpoint)]
           failed == Cardinality({d \in Decoders : built[d].rc # "0"})
       IN
       /\ cxld' = [d \in Decoders |-> built[d].decoder]
       /\ ret' = IF failed = NumSlots THEN "-ENXIO" ELSE "0"
    /\ op' = "enumerate"
    /\ pc' = "idle"
    /\ writes' = <<>>
    /\ UNCHANGED <<hw, is_endpoint, cur, elapsed>>
    /\ UNCHANGED <<mathVars, regionVars, enumVars>>

\* what a caller programs into a free decoder before committing it
DecoderConfigs ==
    {[ways |-> 2, granularity |-> 512, start |-> INT_WRAP, len |-> 2 * SZ_256M]}

\* the region driver fills in a decoder it obtained: range, ways,
\* granularity, targets
Configure(d) ==
    /\ pc = "idle"
    /\ cxld[d].present
    /\ ~cxld[d].enable
    /\ \E c \in DecoderConfigs :
        cxld' = [cxld EXCEPT ![d].interleave_ways = c.ways,
                             ![d].interleave_granularity = c.granularity,
                             ![d].start = c.start,
                             ![d].len = c.len,
                             ![d].target = [i \in 1..cxld[d].nr_targets |-> i - 1]]
    /\ op' = "configure"
    /\ ret' = "0"
    /\ writes' = <<>>
    /\ UNCHANGED <<hw, is_endpoint, pc, cur, elapsed>>
    /\ UNCHANGED <<mathVars, regionVars, enumVars>>

\* a commit that does not look at the ENABLE flag
commit_precheck_no_enable(dec, h) ==
    IF h.committed /\ ~u32_sum_is_zero(h.size_lo, h.size_hi) THEN "-EBUSY"
    ELSE "0"

\* the two preconditions of cxl_commit_decoder()
commit_precheck(dec, h) ==
    IF dec.enable THEN "-ENXIO"
    ELSE IF h.committed /\ ~u32_sum_is_zero(h.size_lo, h.size_hi) THEN "-EBUSY"
    ELSE "0"

\* what cxld->target[i]->port_id gives for i at or past nr_targets, the end
\* of target[]: a fault, or whatever lies behind the array
OOB_FAULT == -1
OobReads == {OOB_FAULT, 0, 7}

\* cxl_commit_decoder() reads target[i] for every i below interleave_ways;
\* does one of them lie past the end of target[]
commit_reads_oob(dec) ==
    dec.nr_targets > 0 /\ dec.interleave_ways > dec.nr_targets

\* byte i of the target list: the port id of target i while i < ways
tl_byte(dec, i, oob) ==
    IF dec.nr_targets > 0 /\ (i = 0 \/ dec.interleave_ways > i)
    THEN IF i < dec.nr_targets THEN dec.target[i + 1] % 256 ELSE oob
    ELSE 0

\* the register values cxl_commit_decoder() writes for a decoder
commit_registers(dec, h, oob) ==
    [h EXCEPT !.ig = cxl_to_ig(dec.interleave_granularity) % 16,
              !.iw = cxl_to_eniw(dec.interleave_ways) % 16,
              !.commit = TRUE,
              !.type = TRUE,
              !.base_lo = genmask_31_28(lower_32_bits(dec.start)),
              !.base_hi = upper_32_bits(dec.start),
              !.size_lo = genmask_31_28(lower_32_bits(dec.len)),
              !.size_hi = upper_32_bits_raw(upper_32_bits(dec.len)),
              !.tl_lo = [i \in 1..4 |-> tl_byte(dec, i - 1, oob)],
              !.tl_hi = [i \in 1..4 |-> tl_byte(dec, i + 3, oob)]]

\* the registers cxl_commit_decoder() writes, in the order of its writel()s
CommitWrites ==
    <<"TL_HIGH", "TL_LOW", "SIZE_HIGH", "SIZE_LOW", "BASE_HIGH", "BASE_LOW", "CTRL">>

\* cxl_commit_decoder() up to its call of wait_for_commit()
CommitCall(d) ==
    /\ pc = "idle"
    /\ cxld[d].present
    /\ op' = "commit"
    /\ cur' = d
    /\ elapsed' = 0
    /\ LET rc == commit_precheck(cxld[d], hw[d]) IN
       IF rc # "0"
       THEN /\ ret' = rc
            /\ writes' = <<>>
            /\ UNCHANGED <<hw, pc>>
       ELSE \E oob \in IF commit_reads_oob(cxld[d]) THEN OobReads ELSE {0} :
            IF oob = OOB_FAULT
            THEN /\ ret' = "oops"
                 /\ writes' = <<>>
                 /\ UNCHANGED <<hw, pc>>
            ELSE /\ ret' = "pending"
                 /\ hw' = [hw EXCEPT ![d] = commit_registers(cxld[d], hw[d], oob)]
                 /\ writes' = CommitWrites
                 /\ pc' = "wait"
    /\ UNCHANGED <<cxld, is_endpoint>>
    /\ UNCHANGED <<mathVars, regionVars, enumVars>>

\* the hardware answers the commit request: the decoder is committed
HwCommitted ==
    /\ pc = "wait"
    /\ ~hw[cur].committed
    /\ hw' = [hw EXCEPT ![cur].committed = TRUE, ![cur].error = FALSE]
    /\ UNCHANGED <<cxld, is_endpoint, pc, cur, elapsed, writes, op, ret>>
    /\ UNCHANGED <<mathVars, regionVars, enumVars>>

\* the hardware answers the commit request: commit error
HwError ==
    /\ pc = "wait"
    /\ ~hw[cur].error
    /\ hw' = [hw EXCEPT ![cur].committed = FALSE, ![cur].error = TRUE]
    /\ UNCHANGED <<cxld, is_endpoint, pc, cur, elapsed, writes, op, ret>>
    /\ UNCHANGED <<mathVars, regionVars, enumVars>>

\* jiffies advance: to the deadline, then past it
Tick ==
    /\ pc = "wait"
    /\ elapsed <= COMMIT_TIMEOUT_MS
    /\ elapsed' = IF elapsed < COMMIT_TIMEOUT_MS THEN COMMIT_TIMEOUT_MS
                  ELSE COMMIT_TIMEOUT_MS + 1
    /\ UNCHANGED <<hw, cxld, is_endpoint, pc, cur, writes, op, ret>>
    /\ UNCHANGED <<mathVars, regionVars, enumVars>>

\* a wait that reports a timeout as success
wait_for_commit_lenient(h, ms) ==
    IF h.committed THEN "0"
    ELSE IF ms > COMMIT_TIMEOUT_MS THEN "0"
    ELSE IF h.error THEN "-ENXIO"
    ELSE "again"

\* one turn of the loop of wait_for_commit()
wait_for_commit(h, ms) ==
    IF h.committed THEN "0"
    ELSE IF ms > COMMIT_TIMEOUT_MS THEN "-ETIMEDOUT"
    ELSE IF h.error THEN "-ENXIO"
    ELSE "again"

\* the loop turn that ends wait_for_commit(), and the rest of
\* cxl_commit_decoder(); a turn that reads "again" changes nothing
Poll ==
    /\ pc = "wait"
    /\ LET rc == wait_for_commit(hw[cur], elapsed) IN
       /\ rc # "again"
       /\ ret' = rc
       /\ cxld' = IF rc = "0" THEN [cxld EXCEPT ![cur].enable = TRUE] ELSE cxld
    /\ pc' = "idle"
    /\ elapsed' = 0
    /\ UNCHANGED <<hw, is_endpoint, cur, writes, op>>
    /\ UNCHANGED <<mathVars, regionVars, enumVars>>

\* the registers cxl_disable_decoder() writes before the control register
DisableWrites ==
    <<"TL_HIGH", "TL_LOW", "SIZE_HIGH", "SIZE_LOW", "BASE_HIGH", "BASE_LOW">>

\* a disable that leaves the size in place
zero_registers_keep_size(h) ==
    [h EXCEPT !.tl_hi = ZeroTL, !.tl_lo = ZeroTL, !.base_hi = 0, !.base_lo = 0]

\* the six writel(0, ...) of cxl_disable_decoder()
zero_registers(h) ==
    [h EXCEPT !.tl_hi = ZeroTL, !.tl_lo = ZeroTL,
              !.size_hi = 0, !.size_lo = 0,
              !.base_hi = 0, !.base_lo = 0]

\* cxl_disable_decoder()
Disable(d) ==
    /\ pc = "idle"
    /\ cxld[d].present
    /\ op' = "disable"
    /\ ret' = "0"
    /\ cur' = d
    /\ IF ~cxld[d].enable
       THEN /\ writes' = <<>>
            /\ UNCHANGED <<hw, cxld>>
       ELSE /\ cxld' = [cxld EXCEPT ![d].enable = FALSE]
            /\ LET zeroed == zero_registers(hw[d]) IN
               IF hw[d].committed
               THEN /\ hw' = [hw EXCEPT ![d] =
                                [zeroed EXCEPT !.ig = 0, !.iw = 0, !.lock = FALSE,
                                               !.type = FALSE, !.commit = TRUE]]
                    /\ writes' = Append(DisableWrites, "CTRL")
               ELSE /\ hw' = [hw EXCEPT ![d] = zeroed]
                    /\ writes' = DisableWrites
    /\ UNCHANGED <<is_endpoint, pc, elapsed>>
    /\ UNCHANGED <<mathVars, regionVars, enumVars>>

InitHdm ==
    /\ MathIdle
    /\ RegionIdle
    /\ hw \in [Decoders -> HwInitStates]
    /\ cxld = [d \in Decoders |-> NoDecoder]
    /\ is_endpoint \in BOOLEAN
    /\ pc = "boot"
    /\ cur = 0
    /\ elapsed = 0
    /\ writes = <<>>
    /\ enum_log = <<>>
    /\ n_committed = 0
    /\ n_failed = 0
    /\ op = "none"
    /\ ret = "0"

NextHdm ==
    \/ Enumerate
    \/ \E d \in Decoders : Configure(d)
    \/ \E d \in Decoders : CommitCall(d)
    \/ HwCommitted
    \/ HwError
    \/ Tick
    \/ Poll
    \/ \E d \in Decoders : Disable(d)

SpecHdm == InitHdm /\ [][NextHdm]_vars

\* the timer runs and the polling thread is scheduled
SpecHdmFair == SpecHdm /\ WF_vars(Tick) /\ WF_vars(Poll)

\* no call is in progress: enumeration is over and no commit is waiting
Quiescent == pc = "idle"

\* C3 as the specification states it: in every quiescent state a decoder's
\* ENABLE flag is set if and only if the committed bit of its control
\* register is set.
C3_EnableIffCommitted ==
    Quiescent =>
        \A d \in Decoders :
            cxld[d].present => (cxld[d].enable <=> hw[d].committed)

\* C3, as the code keeps it: in every quiescent state a decoder whose ENABLE
\* flag is set has its committed bit set, and a decoder whose committed bit
\* is set while ENABLE is clear is one that cxl_disable_decoder() zeroed:
\* its base, size and target list registers are all zero.  The hardware
\* changes the committed bit only in answer to a commit the driver waits on.
C3_EnableImpliesCommitted ==
    Quiescent =>
        \A d \in Decoders :
            cxld[d].present =>
                /\ cxld[d].enable => hw[d].committed
                /\ (hw[d].committed /\ ~cxld[d].enable) =>
                      /\ hw[d].size_lo = 0 /\ hw[d].size_hi = 0
                      /\ hw[d].base_lo = 0 /\ hw[d].base_hi = 0
                      /\ hw[d].tl_lo = ZeroTL /\ hw[d].tl_hi = ZeroTL

\* a decoder that was enabled has been disabled: ENABLE is clear and the
\* committed bit is still set
C3_Witness ==
    /\ Quiescent
    /\ op = "disable"
    /\ writes # <<>>
    /\ cxld[cur].present
    /\ ~cxld[cur].enable
    /\ hw[cur].committed

C5_FailedCommit ==
    /\ [][(pc = "wait" /\ pc' = "idle" /\ ~hw[cur].committed) =>
            /\ ret' \in {"-ETIMEDOUT", "-ENXIO"}
            /\ ret' = "-ETIMEDOUT" => elapsed > COMMIT_TIMEOUT_MS
            /\ ret' = "-ENXIO" => (hw[cur].error /\ elapsed <= COMMIT_TIMEOUT_MS)
            /\ ~cxld'[cur].enable
            /\ cxld' = cxld
            /\ hw' = hw]_vars
    /\ (pc = "wait") ~> (pc = "idle")

\* a commit timed out with the committed bit never set
C5_Witness ==
    /\ pc = "idle"
    /\ op = "commit"
    /\ ret = "-ETIMEDOUT"
    /\ ~hw[cur].committed
    /\ ~hw[cur].error
    /\ ~cxld[cur].enable

(***************************************************************************)
(* Region binding, drivers/cxl/region.c                                    *)
(*                                                                         *)
(* The platform: host bridge hb0 with root ports 0 and 1, host bridge hb1  *)
(* with root ports 2 and 3.  mem0, mem1 and mem2 sit directly below root   *)
(* ports 0, 1 and 2; mem3 sits below a switch on root port 3.  A memdev's  *)
(* endpoint port is named after the memdev.                                *)
(***************************************************************************)
Hostbridges == {"hb0", "hb1"}
DecoderIds == 0..(DecodersPerPort - 1)

\* get_hostbridge(): the depth-1 port above the endpoint
get_hostbridge(ep) == IF ep \in {"mem0", "mem1"} THEN "hb0" ELSE "hb1"

\* get_rp(): the host bridge dport the endpoint hangs off
get_rp(ep) ==
    CASE ep = "mem0" -> 0
      [] ep = "mem1" -> 1
      [] ep = "mem2" -> 2
      [] OTHER -> 3

\* ep->port->depth
port_depth(ep) == IF ep = "mem3" THEN 3 ELSE 2

\* hb->dports
dports(hb) == IF hb = "hb0" THEN {0, 1} ELSE {2, 3}

\* the indices for_each_cxl_endpoint() walks
EndpointIdx(cfg) == 0..(cfg.interleave_ways - 1)

\* get_unique_hostbridges(): the host bridges in order of first appearance
RECURSIVE unique_hostbridges(_, _, _)
unique_hostbridges(cfg, i, hbs) ==
    IF i >= cfg.interleave_ways THEN hbs
    ELSE LET hb == get_hostbridge(cfg.targets[i])
             found == \E j \in 1..Len(hbs) : hbs[j] = hb
         IN unique_hostbridges(cfg, i + 1, IF found THEN hbs ELSE Append(hbs, hb))

\* a scan that stops after the first two endpoints
get_unique_hostbridges_prefix(cfg) ==
    unique_hostbridges([cfg EXCEPT !.interleave_ways = IF @ > 2 THEN 2 ELSE @],
                       0, <<>>)

get_unique_hostbridges(cfg) == unique_hostbridges(cfg, 0, <<>>)

\* get_num_root_ports()
get_num_root_ports(cfg) ==
    Cardinality({get_rp(cfg.targets[i]) : i \in EndpointIdx(cfg)})

\* has_switch()
has_switch(cfg) == \E i \in EndpointIdx(cfg) : port_depth(cfg.targets[i]) > 2

\* cxl_is_pmem_t3(): the root decoder decodes type-3 persistent memory
cxl_is_pmem_t3(rd) == rd.pmem_t3

\* the test inside the loop of region_xhb_config_valid(), as C parses it:
\* (i >> shift) & (mask != port_id)
xhb_target_bad(i, shift, mask, port_id) ==
    /\ (i \div Pow2(shift)) % 2 = 1
    /\ mask # port_id

\* a cross-host-bridge check that leaves out the granularity-ratio test
region_xhb_config_valid_noratio(cfg, rd) ==
    LET rootd_eniw == cxl_to_eniw(rd.interleave_ways)
        rootd_ig == cxl_to_ig(rd.interleave_granularity)
        cxlr_ig == cxl_to_ig(cfg.interleave_granularity)
        n == Len(get_unique_hostbridges(cfg))
    IN
    IF n = 0 THEN FALSE
    ELSE IF n = 1 THEN TRUE
    ELSE IF rootd_ig < cxlr_ig THEN FALSE
    ELSE \A i \in 0..(Len(rd.target) - 2) :
            ~xhb_target_bad(i, rootd_ig - cxlr_ig, Pow2(rootd_eniw) - 1,
                            rd.target[i + 1])

\* region_xhb_config_valid()
region_xhb_config_valid(cfg, rd) ==
    LET rootd_eniw == cxl_to_eniw(rd.interleave_ways)
        rootd_ig == cxl_to_ig(rd.interleave_granularity)
        cxlr_ig == cxl_to_ig(cfg.interleave_granularity)
        cxlr_iw == cfg.interleave_ways
        n == Len(get_unique_hostbridges(cfg))
    IN
    IF n = 0 THEN FALSE
    ELSE IF n = 1 THEN TRUE
    ELSE IF rootd_ig < cxlr_ig THEN FALSE
    ELSE IF Pow2(rootd_ig - cxlr_ig) * Pow2(rootd_eniw) > cxlr_iw THEN FALSE
    ELSE \A i \in 0..(Len(rd.target) - 2) :
            ~xhb_target_bad(i, rootd_ig - cxlr_ig, Pow2(rootd_eniw) - 1,
                            rd.target[i + 1])

\* the state a bind threads through its steps: the staged list, the decoders
\* handed out, whether a decoder could not be had, and whether a decoder was
\* linked a second time
NewEntry(p, id, r) ==
    [port |-> p, id |-> id, interleave_ways |-> 0, interleave_granularity |-> 0,
     target |-> <<>>, start |-> r.start, len |-> r.size, enable |-> FALSE,
     puts |-> 0]

Linked(staged, p, id) ==
    \E k \in 1..Len(staged) : staged[k].port = p /\ staged[k].id = id

MinOf(S) == CHOOSE x \in S : \A y \in S : x <= y

\* cxl_get_decoder(): a decoder of the port that nobody holds, lowest id
\* first, or an error when every decoder of the port is held
cxl_get_decoder(b, p) ==
    LET free == {i \in DecoderIds : <<p, i>> \notin b} IN
    IF free = {} THEN [err |-> TRUE, id |-> 0]
    ELSE [err |-> FALSE, id |-> MinOf(free)]

\* cxl_put_decoder(): hand the decoder back
cxl_put_decoder(b, e) == b \ {<<e.port, e.id>>}

\* get_decoder(): take a decoder of the port, give it the region's range,
\* link it at the tail of the staged list
get_decoder(st, p, r) ==
    LET g == cxl_get_decoder(st.busy, p) IN
    IF g.err THEN [st EXCEPT !.fail = TRUE]
    ELSE IF Linked(st.staged, p, g.id)
    THEN [st EXCEPT !.corrupt = TRUE, !.busy = @ \cup {<<p, g.id>>}]
    ELSE [st EXCEPT !.staged = Append(@, NewEntry(p, g.id, r)),
                    !.busy = @ \cup {<<p, g.id>>}]

\* the fields a caller sets on the decoder get_decoder() just linked
set_last(st, ways, granularity, target) ==
    [st EXCEPT !.staged[Len(st.staged)] =
        [@ EXCEPT !.interleave_ways = ways,
                  !.interleave_granularity = granularity,
                  !.target = target]]

\* a simple_config() that stages nothing
simple_config_unstaged(cfg, st, hb, r) == [ok |-> TRUE, st |-> st]

\* a simple_config() that programs the decoder for two ways
simple_config_two_way(cfg, st, hb, r) ==
    LET st1 == get_decoder(st, hb, r) IN
    IF st1.fail \/ st1.corrupt THEN [ok |-> FALSE, st |-> st1]
    ELSE [ok |-> TRUE,
          st |-> set_last(st1, 2, cfg.interleave_granularity,
                          <<get_rp(cfg.targets[0])>>)]

\* simple_config()
simple_config(cfg, st, hb, r) ==
    LET st1 == get_decoder(st, hb, r) IN
    IF st1.fail \/ st1.corrupt THEN [ok |-> FALSE, st |-> st1]
    ELSE [ok |-> TRUE,
          st |-> set_last(st1, 1, cfg.interleave_granularity,
                          <<get_rp(cfg.targets[0])>>)]

\* cleanup_staged_decoders(): put every staged decoder and unlink it
cleanup_staged_decoders(st) ==
    [st EXCEPT !.staged = <<>>,
               !.busy = @ \ {<<st.staged[k].port, st.staged[k].id>> :
                               k \in 1..Len(st.staged)}]

\* the err: path of region_hb_rp_config_valid(): put every staged decoder,
\* leaving each on the list
hb_rp_err(st) ==
    [st EXCEPT !.staged = [k \in 1..Len(st.staged) |->
                             [st.staged[k] EXCEPT !.puts = IF @ < 2 THEN @ + 1 ELSE @]],
               !.busy = @ \ {<<st.staged[k].port, st.staged[k].id>> :
                               k \in 1..Len(st.staged)}]

\* do all the region's endpoints below each root port of the host bridge
\* have the same idx & position_mask
port_grouping_ok(cfg, hb, position_mask) ==
    \A rp \in dports(hb) :
        LET idxs == {i \in EndpointIdx(cfg) :
                        /\ get_hostbridge(cfg.targets[i]) = hb
                        /\ get_rp(cfg.targets[i]) = rp}
        IN \A i \in idxs : i % (position_mask + 1) = MinOf(idxs) % (position_mask + 1)

\* the loop of region_hb_rp_config_valid() from host bridge i on
RECURSIVE hb_rp_loop(_, _, _, _, _, _)
hb_rp_loop(cfg, hbs, i, st, state_update, r) ==
    IF i > Len(hbs) THEN [ok |-> TRUE, st |-> st]
    ELSE
    LET st1 == IF state_update
               THEN LET g == get_decoder(st, hbs[i], r) IN
                    IF g.fail \/ g.corrupt THEN g
                    ELSE set_last(g, 0, cfg.interleave_granularity, <<>>)
               ELSE st
        position_mask == Pow2(ilog2(get_num_root_ports(cfg))) - 1
    IN
    IF st1.corrupt THEN [ok |-> FALSE, st |-> st1]
    ELSE IF st1.fail THEN [ok |-> FALSE, st |-> hb_rp_err(st1)]
    ELSE IF ~port_grouping_ok(cfg, hbs[i], position_mask)
    THEN [ok |-> FALSE, st |-> hb_rp_err(st1)]
    ELSE hb_rp_loop(cfg, hbs, i + 1, st1, state_update, r)

\* a region_hb_rp_config_valid() without the test for switches
region_hb_rp_config_valid_switched(cfg, st, state_update, r) ==
    LET hbs == get_unique_hostbridges(cfg) IN
    IF get_num_root_ports(cfg) = 1 /\ state_update
    THEN simple_config(cfg, st, hbs[1], r)
    ELSE hb_rp_loop(cfg, hbs, 1, st, state_update, r)

\* region_hb_rp_config_valid()
region_hb_rp_config_valid(cfg, st, state_update, r) ==
    LET hbs == get_unique_hostbridges(cfg) IN
    IF has_switch(cfg) THEN [ok |-> FALSE, st |-> st]
    ELSE IF get_num_root_ports(cfg) = 1 /\ state_update
    THEN simple_config(cfg, st, hbs[1], r)
    ELSE hb_rp_loop(cfg, hbs, 1, st, state_update, r)

\* rootd_valid(); qtg_match() and rootd_contains() are always true
rootd_valid(cfg, rd, st, state_update, r) ==
    IF ~cxl_is_pmem_t3(rd) THEN [ok |-> FALSE, st |-> st]
    ELSE IF ~region_xhb_config_valid(cfg, rd) THEN [ok |-> FALSE, st |-> st]
    ELSE region_hb_rp_config_valid(cfg, st, state_update, r)

\* collect_ep_decoders() from target i on
RECURSIVE collect_ep_decoders(_, _, _, _)
collect_ep_decoders(cfg, st, i, r) ==
    IF i >= cfg.interleave_ways THEN st
    ELSE LET g == get_decoder(st, cfg.targets[i], r) IN
         IF g.corrupt THEN g
         ELSE IF g.fail THEN cleanup_staged_decoders(g)
         ELSE collect_ep_decoders(
                cfg,
                set_last(g, cfg.interleave_ways, cfg.interleave_granularity, <<>>),
                i + 1, r)

\* bind_region(): a stub that returns 0
bind_region(st) == "0"

\* how allocate_address_space() can end: it succeeds, gen_pool_alloc()
\* fails, __request_region() fails, devm_add_action_or_reset() fails
AllocOutcomes == {"ok", "pool", "request", "devres"}

\* release_cxl_region(), which the driver core runs when the probe fails:
\* __release_region() and gen_pool_free() of the range cxlr->res names
release_cxl_region(r) == [r EXCEPT !.reserved = FALSE, !.pool = FALSE]

\* an allocation that keeps the pool range when __request_region() fails
allocate_address_space_leaky(cfg, r0, how) ==
    LET range == [pool |-> TRUE, reserved |-> TRUE, start |-> INT_WRAP,
                  size |-> cfg.size] IN
    CASE how = "pool" -> [rc |-> "-ENOMEM", res |-> r0]
      [] how = "request" -> [rc |-> "-ENOMEM", res |-> [NoRes EXCEPT !.pool = TRUE]]
      [] how = "devres" -> [rc |-> "-ENOMEM", res |-> release_cxl_region(range)]
      [] OTHER -> [rc |-> "0", res |-> range]

\* allocate_address_space(): its return code, and cxlr->res with what is
\* held of the pool and of the platform window afterwards
allocate_address_space(cfg, r0, how) ==
    LET range == [pool |-> TRUE, reserved |-> TRUE, start |-> INT_WRAP,
                  size |-> cfg.size] IN
    CASE how = "pool" -> [rc |-> "-ENOMEM", res |-> r0]
      [] how = "request" -> [rc |-> "-ENOMEM", res |-> NoRes]
      [] how = "devres" -> [rc |-> "-ENOMEM", res |-> release_cxl_region(range)]
      [] OTHER -> [rc |-> "0", res |-> range]

\* rootd_match() for the decoder at position k of the root port's children
rootd_match(cfg, kids, k, st, r) == rootd_valid(cfg, kids[k], st, FALSE, r).ok

\* find_rootd(): device_find_child() walks the children from position k on
\* and returns the first that matches (its position here), NULL (position 0)
\* when none does
RECURSIVE find_rootd(_, _, _, _, _)
find_rootd(cfg, kids, k, st, r) ==
    IF k > Len(kids) THEN 0
    ELSE IF rootd_match(cfg, kids, k, st, r) THEN k
    ELSE find_rootd(cfg, kids, k + 1, st, r)

\* the decoder find_rootd() returned, as the probe compares it with rootd
found_rootd(kids, k, rd) ==
    IF k = 0 THEN NULL ELSE IF kids[k] = rd THEN "rootd" ELSE "other"

\* the value of the one element of a set
TheOne(S) == CHOOSE x \in S : TRUE

\* cxl_region_probe() from the root decoder walk on: found is what
\* find_rootd() returned, dbg whether the debug message about a different
\* root decoder is switched on (it reads the name of the decoder found, NULL
\* or not), c the staged state after collect_ep_decoders()
probe_collect(a, v, found, dbg, c) ==
    IF found = NULL /\ dbg
    THEN [ret |-> "oops", active |-> FALSE, st |-> v.st, res |-> a.res, alloc_rc |-> a.rc,
          ours |-> found]
    ELSE IF c.corrupt
    THEN [ret |-> "oops", active |-> FALSE, st |-> c, res |-> a.res, alloc_rc |-> a.rc,
          ours |-> found]
    ELSE IF c.fail
    THEN [ret |-> "-EBUSY", active |-> FALSE, st |-> cleanup_staged_decoders(c),
          res |-> release_cxl_region(a.res), alloc_rc |-> a.rc, ours |-> found]
    ELSE IF bind_region(c) # "0"
    THEN [ret |-> bind_region(c), active |-> FALSE, st |-> cleanup_staged_decoders(c),
          res |-> release_cxl_region(a.res), alloc_rc |-> a.rc, ours |-> found]
    ELSE [ret |-> "0", active |-> TRUE, st |-> c, res |-> a.res, alloc_rc |-> a.rc,
          ours |-> found]

\* cxl_region_probe() from the test of the region's own root decoder on: v is
\* what rootd_valid() returned with state_update set
probe_rootd(cfg, rd, a, v, kids, dbg) ==
    IF v.st.corrupt
    THEN [ret |-> "oops", active |-> FALSE, st |-> v.st, res |-> a.res, alloc_rc |-> a.rc,
          ours |-> "unset"]
    ELSE IF ~v.ok
    THEN [ret |-> "-ENXIO", active |-> FALSE, st |-> v.st,
          res |-> release_cxl_region(a.res), alloc_rc |-> a.rc, ours |-> "unset"]
    ELSE TheOne({probe_collect(a, v, found, dbg, c) :
                    found \in {found_rootd(kids, find_rootd(cfg, kids, 1, v.st, a.res), rd)},
                    c \in {collect_ep_decoders(cfg, v.st, 0, a.res)}})

\* cxl_region_probe() of a region that is not active, after the uuid test;
\* s is what sanitize_region() returned, kids the decoders find_rootd() walks
cxl_region_probe(cfg, rd, st0, r0, how, s, kids, dbg) ==
    IF s # "0"
    THEN [ret |-> s, active |-> FALSE, st |-> st0, res |-> r0, alloc_rc |-> "none",
          ours |-> "unset"]
    ELSE TheOne({IF a.rc # "0"
                 THEN [ret |-> a.rc, active |-> FALSE, st |-> st0, res |-> a.res,
                       alloc_rc |-> a.rc, ours |-> "unset"]
                 ELSE TheOne({probe_rootd(cfg, rd, a, v, kids, dbg) :
                                 v \in {rootd_valid(cfg, rd, st0, TRUE, a.res)}}) :
                    a \in {allocate_address_space(cfg, r0, how)}})

\* cxl_region_probe() called on the region
ProbeCall ==
    /\ ret # "oops"
    /\ op' = "probe"
    /\ IF active
       THEN /\ ret' = "0"
            /\ alloc_rc' = "none"
            /\ UNCHANGED <<config, active, staged_list, res, busy, ours>>
       ELSE \E how \in AllocOutcomes, dbg \in BOOLEAN :
            LET cfg1 == [config EXCEPT !.uuid = IF @ = NULL THEN "generated" ELSE @] IN
            \E s \in sanitize_region(cfg1, driver) :
            LET st0 == [staged |-> staged_list, busy |-> busy,
                        fail |-> FALSE, corrupt |-> FALSE]
                out == cxl_region_probe(cfg1, rootd, st0, res, how, s,
                                        root_decoders, dbg)
            IN
            /\ config' = cfg1
            /\ ret' = out.ret
            /\ active' = out.active
            /\ staged_list' = out.st.staged
            /\ busy' = out.st.busy
            /\ res' = out.res
            /\ alloc_rc' = out.alloc_rc
            /\ ours' = out.ours
    /\ UNCHANGED <<driver, commit_list, rootd, root_decoders>>
    /\ UNCHANGED <<mathVars, hdmVars, idVars>>

\* the driver core binds the region: cxl_region_probe()
Probe ==
    /\ ProbeCall
    /\ UNCHANGED setVars

\* the regions, root decoders and decoder pools a bind is tried on
TargetSeqs ==
    {<<"mem0">>, <<"mem1">>, <<"mem3">>,
     <<"mem0", "mem1">>, <<"mem0", "mem2">>, <<"mem0", "mem0">>, <<"mem0", NULL>>,
     <<"mem0", "mem0", "mem2", "mem2">>, <<"mem0", "mem2", "mem0", "mem2">>}

RootDecoders ==
    {[pmem_t3 |-> p, interleave_ways |-> Len(t), interleave_granularity |-> g,
      target |-> t] : p \in BOOLEAN, t \in {<<0>>, <<0, 1>>}, g \in {256, 512}}

\* the decoders of a root port the region's own root decoder is not under:
\* one decoder for volatile memory
ForeignRoot ==
    <<[pmem_t3 |-> FALSE, interleave_ways |-> 1, interleave_granularity |-> 256,
       target |-> <<0>>]>>

AllOf(p) == {<<p, i>> : i \in DecoderIds}
BusyInputs == {{}, AllOf("hb1"), AllOf("mem2")}

Init ==
    /\ MathIdle
    /\ HdmIdle
    /\ \E t \in TargetSeqs, g \in {256, 512}, bad \in BOOLEAN, u \in {NULL, "set"} :
        config = [size |-> IF bad THEN 300 ELSE SZ_256M * Len(t),
                  uuid |-> u,
                  interleave_ways |-> Len(t),
                  interleave_granularity |-> g,
                  targets |-> [i \in Slots |-> IF i < Len(t) THEN t[i + 1] ELSE NULL]]
    /\ driver \in {[m \in Memdevs |-> TRUE], [m \in Memdevs |-> m # "mem1"]}
    /\ active = FALSE
    /\ staged_list = <<>>
    /\ commit_list = <<>>
    /\ res = NoRes
    /\ rootd \in RootDecoders
    /\ busy \in BusyInputs
    /\ alloc_rc = "none"
    /\ root_decoders \in {<<rootd>>, ForeignRoot}
    /\ ours = "unset"
    /\ IdIdle
    /\ SetIdle
    /\ op = "none"
    /\ ret = "0"

Next == Probe

Spec == Init /\ [][Next]_vars

\* the last operation was a bind that returned an error code
BindFailed == op = "probe" /\ ret \in {"-ENXIO", "-ENODEV", "-ENOMEM", "-EBUSY"}

\* C1: whenever cxl_region_probe() returns an error the region is not
\* active and its staged list is empty.
C1_FailedBindRollsBack ==
    BindFailed => (~active /\ staged_list = <<>>)

\* C2: when the bind has succeeded (active is true) the staged list is
\* empty and every decoder staged for the region is on commit_list with
\* its ENABLE flag set.
C2_BoundMeansCommitted ==
    active =>
        /\ staged_list = <<>>
        /\ commit_list # <<>>
        /\ \A k \in 1..Len(commit_list) : commit_list[k].enable

\* one driver-bound endpoint directly under one host bridge, granularity
\* 256, ways 1, size 256 MiB
SimpleRegion ==
    /\ config.interleave_ways = 1
    /\ config.interleave_granularity = 256
    /\ config.size = SZ_256M
    /\ config.targets[0] # NULL
    /\ driver[config.targets[0]]
    /\ port_depth(config.targets[0]) = 2

GroupingMismatch(cfg) ==
    /\ ~has_switch(cfg)
    /\ Len(get_unique_hostbridges(cfg)) > 1
    /\ \E k \in 1..Len(get_unique_hostbridges(cfg)) :
          ~port_grouping_ok(cfg, get_unique_hostbridges(cfg)[k],
                            Pow2(ilog2(get_num_root_ports(cfg))) - 1)

\* the last bind got as far as region_hb_rp_config_valid(.., true)
ReachedHbRp ==
    /\ op = "probe"
    /\ ret # "oops"
    /\ alloc_rc = "0"
    /\ cxl_is_pmem_t3(rootd)
    /\ region_xhb_config_valid(config, rootd)

\* C11: when root-port validation with state update meets a grouping
\* mismatch on a region spanning several host bridges it fails (the bind
\* returns -ENXIO) and the staged list is empty afterwards.
C11_MismatchLeavesNothingStaged ==
    (ReachedHbRp /\ GroupingMismatch(config)) =>
        (ret = "-ENXIO" /\ ~active /\ staged_list = <<>>)


(***************************************************************************)
(* Region ids: create_pmem_region_store(), delete_region_store(), the      *)
(* detach work and cxl_region_release() (core/region.c, memregion ids).    *)
(***************************************************************************)

MaxRegions == 3
MaxRegionId == 3
MaxRefs == 5
RegionIds == 0..MaxRegionId
NO_ID == -1

\* memregion_alloc(): ida_alloc() hands out the lowest id that is free, or
\* fails (NO_ID) when none is left
memregion_alloc(ids) ==
    IF RegionIds \ ids = {} THEN NO_ID
    ELSE CHOOSE i \in RegionIds \ ids : \A j \in RegionIds \ ids : i <= j

memregion_free(ids, id) == ids \ {id}

\* the allocator/objects part of the state that the helpers below thread along
IdState(ids, nxt, regs, bad) ==
    [ida |-> ids, next |-> nxt, regions |-> regs, oops |-> bad]

\* kzalloc() + device_initialize() of cxl_region_alloc(): one reference, not
\* registered, no devm action, no detach work queued
NewRegion(id) ==
    [id |-> id, refs |-> 1, registered |-> FALSE, devm |-> FALSE,
     work |-> FALSE, freed |-> FALSE]

\* cxl_region_release(): the id goes back to the allocator, the object is freed
cxl_region_release(S, k) ==
    [S EXCEPT !.ida = memregion_free(S.ida, S.regions[k].id),
              !.regions[k].freed = TRUE]

\* dropping one reference of a live object; the last one releases it
put_live(S, k) ==
    LET T == [S EXCEPT !.regions[k].refs = S.regions[k].refs - 1]
    IN  IF T.regions[k].refs = 0 THEN cxl_region_release(T, k) ELSE T

\* what a put_device() through a dangling pointer can do: nothing visible
\* (UAF_NONE), crash (UAF_OOPS), or, when the memory was handed out again, drop a
\* reference of the object that lives there now (u is its index)
UAF_NONE == 0
UAF_OOPS == -1
UseAfterFree == {UAF_NONE, UAF_OOPS} \cup (1..MaxRegions)

put_device(S, k, u) ==
    IF ~S.regions[k].freed THEN put_live(S, k)
    ELSE IF u = UAF_OOPS THEN [S EXCEPT !.oops = TRUE]
    ELSE IF u = UAF_NONE THEN S
    ELSE IF u \in 1..Len(S.regions) /\ ~S.regions[u].freed THEN put_live(S, u)
    ELSE S

get_device(S, k) == [S EXCEPT !.regions[k].refs = S.regions[k].refs + 1]

\* device_add(): the device becomes findable by name; the parent's and the
\* bus's klists each hold a reference
device_add(S, k) ==
    [S EXCEPT !.regions[k].registered = TRUE,
              !.regions[k].refs = S.regions[k].refs + 2]

\* device_del(): the name disappears and both klist references are dropped
device_del(S, k, u) ==
    LET T == IF S.regions[k].freed THEN S
             ELSE [S EXCEPT !.regions[k].registered = FALSE]
    IN  put_device(put_device(T, k, u), k, u)

device_unregister(S, k, u) == put_device(device_del(S, k, u), k, u)

\* schedule_cxl_region_unregister(): queue the detach work of the region
schedule_cxl_region_unregister(S, k) == [S EXCEPT !.regions[k].work = TRUE]

\* an allocation that leaves the cached id alone (the fresh id is dropped)
cxl_region_alloc_stale(S, rc) ==
    [S EXCEPT !.regions = Append(S.regions, NewRegion(S.next))]

\* cxl_region_alloc(): the region takes the cached id, the fresh id is cached
cxl_region_alloc(S, rc) ==
    [S EXCEPT !.regions = Append(S.regions, NewRegion(S.next)),
              !.next = rc]

CreateFailures == {"none", "memregion", "kzalloc", "name", "add", "devm"}

\* devm_cxl_add_region(); fail names the call that fails
devm_cxl_add_region(S, fail, u) ==
    LET rc == memregion_alloc(S.ida)
        S1 == [S EXCEPT !.ida = S.ida \cup {rc}]
        S2 == cxl_region_alloc(S1, rc)
        k  == Len(S2.regions)
        S3 == device_add(S2, k)
    IN  IF fail = "memregion" \/ rc = NO_ID THEN S
        ELSE IF fail = "kzalloc" THEN [S1 EXCEPT !.ida = memregion_free(S1.ida, rc)]
        ELSE IF fail = "name" THEN put_device(S2, k, u)
        ELSE IF fail = "add" THEN put_device(S2, k, u)
        ELSE IF fail = "devm"
             THEN put_device(schedule_cxl_region_unregister(S3, k), k, u)
        ELSE [S3 EXCEPT !.regions[k].devm = TRUE]

\* device_find_child_by_name(): the registered children named "region<id>"
cxl_find_region_by_name(S, id) ==
    {k \in 1..Len(S.regions) :
        /\ ~S.regions[k].freed
        /\ S.regions[k].registered
        /\ S.regions[k].id = id}

IdNow == IdState(ida, next_region_id, regions, ret = "oops")

IdStep(S, r) ==
    /\ ida' = S.ida
    /\ next_region_id' = S.next
    /\ regions' = S.regions
    /\ ret' = IF S.oops THEN "oops" ELSE r

IdFrame ==
    UNCHANGED <<mathVars, hdmVars, config, driver, bindVars, setVars>>

\* create_pmem_region_store(): the id written must be the cached one; the
\* result of devm_cxl_add_region() is not looked at
CreateStore ==
    /\ ret # "oops"
    /\ Len(regions) < MaxRegions
    /\ \E id \in RegionIds, fail \in CreateFailures, u \in UseAfterFree :
          /\ op' = "create"
          /\ IF next_region_id # id
             THEN IdStep(IdNow, "-EINVAL")
             ELSE IdStep(devm_cxl_add_region(IdNow, fail, u), "len")
    /\ IdFrame

\* delete_region_store(): the reference taken by the lookup is kept;
\* devm_release_action() runs schedule_unregister() if the action is there
DeleteStore ==
    /\ ret # "oops"
    /\ \E id \in RegionIds :
          /\ op' = "delete"
          /\ IF cxl_find_region_by_name(IdNow, id) = {}
             THEN IdStep(IdNow, "-ENOENT")
             ELSE LET k  == CHOOSE x \in cxl_find_region_by_name(IdNow, id) : TRUE
                      S1 == get_device(IdNow, k)
                  IN  /\ regions[k].refs < MaxRefs
                      /\ IF S1.regions[k].devm
                         THEN IdStep(schedule_cxl_region_unregister(
                                      [S1 EXCEPT !.regions[k].devm = FALSE], k),
                                     "len")
                         ELSE IdStep(S1, "len")
    /\ IdFrame

\* unregister_region(): the detach work of region k runs
UnregisterWork ==
    /\ ret # "oops"
    /\ \E k \in 1..Len(regions), u \in UseAfterFree :
          /\ regions[k].work
          /\ op' = "detach"
          /\ IdStep(device_unregister([IdNow EXCEPT !.regions[k].work = FALSE],
                                      k, u), ret)
    /\ IdFrame

InitIds ==
    /\ MathIdle
    /\ RegionIdle
    /\ HdmIdle
    /\ op = "none"
    /\ ret = "0"

NextIds == CreateStore \/ DeleteStore \/ UnregisterWork

SpecIds == InitIds /\ [][NextIds]_vars

LiveRegions == {k \in 1..Len(regions) : ~regions[k].freed}

\* C12: under every interleaving of create requests, delete requests and the
\* detach work, no two region objects that are not yet released have the
\* same id, the cached next id is the id of none of them, and the id of a
\* region that is not yet released is still allocated in the id allocator
C12_RegionIdsUnique ==
    (ret # "oops") =>
        /\ \A a, b \in LiveRegions : a # b => regions[a].id # regions[b].id
        /\ \A a \in LiveRegions : regions[a].id # next_region_id
        /\ \A a \in LiveRegions : regions[a].id \in ida
        /\ next_region_id \in ida

\* an id that was released with its region is handed out again while other
\* regions are registered, one of them with its removal pending
C12_Witness ==
    /\ ret # "oops"
    /\ \E a, b, c \in 1..Len(regions) :
          /\ regions[a].freed
          /\ ~regions[b].freed /\ regions[b].registered
          /\ ~regions[c].freed /\ regions[c].work
          /\ b # c
          /\ next_region_id = regions[a].id


(***************************************************************************)
(* The attribute setters of the region whose configuration lives in        *)
(* cxlr->config (interleave_ways_store() ... set_targetN()), running       *)
(* against a bind of the same region by the region driver.                 *)
(***************************************************************************)

MaxTargetN == 2
WaysWritten == {-1, 1, 2, 5}
GranWritten == {100, 256, 512}
SizeWritten == {300, 2 * SZ_256M}
TargetWritten == {"", "nosuch", "mem0", "mem2"}

is_region_active == active

\* remove_target(): drop the reference and clear the slot
config_remove_target(cfg, n) == [cfg EXCEPT !.targets[n] = NULL]

RECURSIVE remove_targets_down(_, _, _)
remove_targets_down(cfg, prev_iw, iw) ==
    IF prev_iw > iw
    THEN remove_targets_down(config_remove_target(cfg, prev_iw - 1), prev_iw - 1, iw)
    ELSE cfg

\* visible_targets(): targetN is shown for n < interleave_ways
visible_targets(iw) ==
    IF iw < 0 THEN 0
    ELSE IF iw > CXL_DECODER_MAX_INTERLEAVE THEN CXL_DECODER_MAX_INTERLEAVE
    ELSE iw

SetterFrame ==
    UNCHANGED <<mathVars, hdmVars, driver, bindVars, idVars, dev_lock, dev_driver,
                cxled_cxlr>>

\* interleave_ways_store() of the config setters: the range test looks at
\* the return value of kstrtoint(), which is 0 here, so every val is stored;
\* neither the device lock nor the active flag is looked at.  For val < 0
\* the removal loop runs down to targets[-1]
config_interleave_ways_store ==
    /\ ret # "oops"
    /\ \E val \in WaysWritten, rc \in {"0", "-ENOMEM"} :
          /\ op' = "interleave_ways"
          /\ IF rc # "0"
             THEN /\ ret' = rc
                  /\ UNCHANGED <<config, visible>>
             ELSE /\ visible' = visible_targets(val)
                  /\ IF val < 0
                     THEN /\ ret' = "oops"
                          /\ config' = remove_targets_down(
                                           [config EXCEPT !.interleave_ways = val],
                                           config.interleave_ways, 0)
                     ELSE /\ ret' = "len"
                          /\ config' = remove_targets_down(
                                           [config EXCEPT !.interleave_ways = val],
                                           config.interleave_ways, val)
    /\ SetterFrame

\* interleave_granularity_store() of the config setters: stores what it parsed
config_interleave_granularity_store ==
    /\ ret # "oops"
    /\ \E val \in GranWritten :
          /\ op' = "interleave_granularity"
          /\ config' = [config EXCEPT !.interleave_granularity = val]
          /\ ret' = "len"
    /\ UNCHANGED visible
    /\ SetterFrame

\* size_store(): under the device lock, -EBUSY once the region is active
size_store ==
    /\ ret # "oops"
    /\ dev_lock = "none"
    /\ \E val \in SizeWritten :
          /\ op' = "size"
          /\ IF is_region_active
             THEN ret' = "-EBUSY" /\ UNCHANGED config
             ELSE ret' = "len" /\ config' = [config EXCEPT !.size = val]
    /\ UNCHANGED visible
    /\ SetterFrame

\* uuid_store(): under the device lock, -EBUSY once the region is active
config_uuid_store ==
    /\ ret # "oops"
    /\ dev_lock = "none"
    /\ \E parsed \in BOOLEAN :
          /\ op' = "uuid"
          /\ IF is_region_active
             THEN ret' = "-EBUSY" /\ UNCHANGED config
             ELSE IF parsed
             THEN ret' = "len" /\ config' = [config EXCEPT !.uuid = "set"]
             ELSE ret' = "-EINVAL" /\ UNCHANGED config
    /\ UNCHANGED visible
    /\ SetterFrame

\* set_targetN(): under the device lock; the active flag is not looked at.
\* An empty write removes the target; a name that is not found leaves the
\* slot cleared
set_targetN ==
    /\ ret # "oops"
    /\ dev_lock = "none"
    /\ \E n \in 0..(MaxTargetN - 1), buf \in TargetWritten :
          /\ n < visible
          /\ op' = "target"
          /\ LET cfg1 == IF buf = "" \/ config.targets[n] # NULL
                         THEN config_remove_target(config, n) ELSE config
             IN  IF buf = "" THEN ret' = "len" /\ config' = cfg1
                 ELSE IF buf \notin Memdevs THEN ret' = "-ENOENT" /\ config' = cfg1
                 ELSE ret' = "len" /\ config' = [cfg1 EXCEPT !.targets[n] = buf]
    /\ UNCHANGED visible
    /\ SetterFrame

\* the driver core takes the device lock of the region to probe it
ProbeEnter ==
    /\ ret # "oops"
    /\ dev_lock = "none"
    /\ dev_lock' = "probe"
    /\ op' = "lock"
    /\ UNCHANGED <<ret, config, driver, bindVars, idVars, dev_driver, visible,
                   cxled_cxlr>>
    /\ UNCHANGED <<mathVars, hdmVars>>

\* cxl_region_probe() runs with the lock held, then the lock is dropped
ProbeLeave ==
    /\ dev_lock = "probe"
    /\ ProbeCall
    /\ dev_lock' = "none"
    /\ UNCHANGED <<dev_driver, visible, cxled_cxlr>>

InitConfig ==
    /\ MathIdle
    /\ RegionIdle
    /\ HdmIdle
    /\ op = "none"
    /\ ret = "0"

NextConfig ==
    \/ config_interleave_ways_store
    \/ config_interleave_granularity_store
    \/ size_store
    \/ config_uuid_store
    \/ set_targetN
    \/ ProbeEnter
    \/ ProbeLeave

SpecConfig == InitConfig /\ [][NextConfig]_vars

SetterOps == {"interleave_ways", "interleave_granularity", "size", "uuid", "target"}

\* C14: once the region is active every setter call (granularity, ways,
\* target[n], size, UUID) returns -EBUSY and leaves the configuration,
\* target references included, as it was.
C14_BoundRejectsSetters ==
    [][(active /\ op' \in SetterOps) =>
          (ret' = "-EBUSY" /\ config' = config)]_vars

\* C15: while cxl_region_probe() is running with the device lock held, no
\* setter running at the same time changes ways, granularity, size, UUID or
\* a target.
C15_ProbeExcludesSetters ==
    [][(dev_lock = "probe" /\ op' \in SetterOps) => config' = config]_vars


(***************************************************************************)
(* The ordered attribute setters of core/region.c: interleave_ways_store(),*)
(* interleave_granularity_store(), uuid_store() and store_targetN(), with  *)
(* the targetN attributes shown by visible_targets().                      *)
(***************************************************************************)

WaysStored == {-254, 0, 1, 2, 5, 16, 258}
GranStored == {-256, 3, 128, 256, 512, 32768}
DecoderLookups ==
    {"nosuch", "notdecoder", "notendpoint", "enabled"} \cup EndpointDecoders

\* cxl_is_interleave_ways_valid(cxlr, rootd, u8 ways) of region.h: the value
\* arrives as a u8
rootd_interleave_ways_valid(cfg, rd, val) ==
    LET ways == U8(val)
        root_ig == cxl_from_granularity(rd.interleave_granularity)
        region_ig == cxl_from_granularity(cfg.interleave_granularity)
        root_eniw == cxl_from_ways(rd.interleave_ways)
    IN  /\ ways \in (0..4) \cup {6, 8, 12, 16}
        /\ \/ rd.interleave_ways = 1
           \/ Pow2(root_ig - region_ig) * Pow2(root_eniw) <= ways

\* a granularity test that does not look at the root decoder
rootd_interleave_granularity_valid_any_root(rd, ig) ==
    /\ is_power_of_2(ig)
    /\ ig \div 32768 = 0

\* cxl_is_interleave_granularity_valid(rootd, ig) of region.h
rootd_interleave_granularity_valid(rd, ig) ==
    /\ is_power_of_2(ig)
    /\ ig \div 32768 = 0
    /\ ~(cxl_from_granularity(rd.interleave_granularity) < cxl_from_granularity(ig))

\* the tests of interleave_ways_store() without the granularity-first one
interleave_ways_check_unordered(cfg, bound, rd, val) ==
    IF bound THEN "-EBUSY"
    ELSE IF cfg.interleave_ways # 0 THEN "-EEXIST"
    ELSE IF ~rootd_interleave_ways_valid(cfg, rd, val) THEN "-EINVAL"
    ELSE "0"

\* the tests of interleave_ways_store(): -EBUSY with a driver, -EEXIST when
\* ways is set, -EILSEQ while granularity is unset, -EINVAL for a value the
\* root decoder does not allow
interleave_ways_check(cfg, bound, rd, val) ==
    IF bound THEN "-EBUSY"
    ELSE IF cfg.interleave_ways # 0 THEN "-EEXIST"
    ELSE IF cfg.interleave_granularity = 0 THEN "-EILSEQ"
    ELSE IF ~rootd_interleave_ways_valid(cfg, rd, val) THEN "-EINVAL"
    ELSE "0"

StoreFrame ==
    UNCHANGED <<mathVars, hdmVars, driver, bindVars, idVars, dev_driver>>

\* the region's name, as cxled->cxlr holds it
THE_REGION == "region0"

\* interleave_ways_store(): a failing sysfs_update_group() sets ways back
\* to 0
interleave_ways_store ==
    /\ ret # "oops"
    /\ dev_lock = "none"
    /\ \E val \in WaysStored, rc \in {"0", "-ENOMEM"} :
          /\ op' = "interleave_ways"
          /\ IF interleave_ways_check(config, dev_driver, rootd, val) # "0"
             THEN /\ ret' = interleave_ways_check(config, dev_driver, rootd, val)
                  /\ UNCHANGED <<config, visible>>
             ELSE IF rc # "0"
             THEN /\ ret' = rc
                  /\ config' = [config EXCEPT !.interleave_ways = 0]
                  /\ visible' = 0
             ELSE /\ ret' = "len"
                  /\ config' = [config EXCEPT !.interleave_ways = val]
                  /\ visible' = visible_targets(val)
    /\ UNCHANGED <<dev_lock, cxled_cxlr>>
    /\ StoreFrame

\* interleave_granularity_store()
interleave_granularity_store ==
    /\ ret # "oops"
    /\ dev_lock = "none"
    /\ \E val \in GranStored :
          /\ op' = "interleave_granularity"
          /\ IF dev_driver THEN ret' = "-EBUSY" /\ UNCHANGED config
             ELSE IF config.interleave_granularity # 0
             THEN ret' = "-EEXIST" /\ UNCHANGED config
             ELSE IF ~rootd_interleave_granularity_valid(rootd, val)
             THEN ret' = "-EINVAL" /\ UNCHANGED config
             ELSE /\ ret' = "len"
                  /\ config' = [config EXCEPT !.interleave_granularity = val]
    /\ UNCHANGED <<dev_lock, visible, cxled_cxlr>>
    /\ StoreFrame

\* uuid_store(): a duplicate UUID returns false, that is 0
uuid_store ==
    /\ ret # "oops"
    /\ dev_lock = "none"
    /\ \E parsed \in BOOLEAN, dupe \in BOOLEAN :
          /\ op' = "uuid"
          /\ IF ~parsed THEN ret' = "-EINVAL" /\ UNCHANGED config
             ELSE IF dev_driver THEN ret' = "-EBUSY" /\ UNCHANGED config
             ELSE IF config.uuid # NULL THEN ret' = "-EEXIST" /\ UNCHANGED config
             ELSE IF dupe THEN ret' = "0" /\ UNCHANGED config
             ELSE ret' = "len" /\ config' = [config EXCEPT !.uuid = "set"]
    /\ UNCHANGED <<dev_lock, visible, cxled_cxlr>>
    /\ StoreFrame

\* a write to targetN: the attribute exists only for n < interleave_ways
\* (visible_targets()); store_targetN() itself returns with the device lock
\* still held when the name is not an idle endpoint decoder
store_targetN ==
    /\ ret # "oops"
    /\ dev_lock = "none"
    /\ \E n \in 0..(MaxTargetN - 1), buf \in DecoderLookups :
          /\ op' = "target"
          /\ IF ~(n < visible)
             THEN ret' = "-ENOENT" /\ UNCHANGED <<config, dev_lock, cxled_cxlr>>
             ELSE IF dev_driver
             THEN ret' = "-EBUSY" /\ UNCHANGED <<config, dev_lock, cxled_cxlr>>
             ELSE IF config.targets[n] # NULL
             THEN ret' = "-EEXIST" /\ UNCHANGED <<config, dev_lock, cxled_cxlr>>
             ELSE IF buf = "nosuch"
             THEN ret' = "-ENOENT" /\ dev_lock' = "leaked" /\ UNCHANGED <<config, cxled_cxlr>>
             ELSE IF buf \in {"notdecoder", "notendpoint"}
             THEN ret' = "-EINVAL" /\ dev_lock' = "leaked" /\ UNCHANGED <<config, cxled_cxlr>>
             ELSE IF buf = "enabled"
             THEN ret' = "-EBUSY" /\ dev_lock' = "leaked" /\ UNCHANGED <<config, cxled_cxlr>>
             ELSE /\ ret' = "len"
                  /\ config' = [config EXCEPT !.targets[n] = buf]
                  /\ cxled_cxlr' = [cxled_cxlr EXCEPT ![buf] = THE_REGION]
                  /\ UNCHANGED dev_lock
    /\ UNCHANGED visible
    /\ StoreFrame

\* remove_target(): the decoder in the slot loses its back-reference and
\* the slot is cleared
remove_target(T, n) ==
    [targets |-> [T.targets EXCEPT ![n] = NULL],
     cxlr |-> IF T.targets[n] # NULL
              THEN [T.cxlr EXCEPT ![T.targets[n]] = NULL]
              ELSE T.cxlr]

\* the loop of cxl_region_release(): remove_target() for slot i and on,
\* below interleave_ways
RECURSIVE remove_targets(_, _, _)
remove_targets(T, i, ways) ==
    IF i >= ways THEN T ELSE remove_targets(remove_target(T, i), i + 1, ways)

\* what the loop does when interleave_ways is above the 16 slots of
\* targets[]: it reads past the array, which passes unnoticed or crashes
PastTargets == {"silent", "oops"}

\* the last reference of the region is dropped: cxl_region_release()
\* removes the targets below interleave_ways and frees the region, after
\* which none of its attributes can be written
RegionRelease ==
    /\ ret # "oops"
    /\ dev_lock # "released"
    /\ ~dev_driver
    /\ \E past \in PastTargets :
        LET T == remove_targets([targets |-> config.targets, cxlr |-> cxled_cxlr], 0,
                                IF config.interleave_ways > CXL_DECODER_MAX_INTERLEAVE
                                THEN CXL_DECODER_MAX_INTERLEAVE
                                ELSE config.interleave_ways)
        IN /\ config' = [config EXCEPT !.targets = T.targets]
           /\ cxled_cxlr' = T.cxlr
           /\ ret' = IF config.interleave_ways > CXL_DECODER_MAX_INTERLEAVE
                        /\ past = "oops"
                     THEN "oops" ELSE "0"
    /\ op' = "release"
    /\ dev_lock' = "released"
    /\ UNCHANGED visible
    /\ StoreFrame

InitSetters ==
    /\ MathIdle
    /\ HdmIdle
    /\ config = [size |-> 0, uuid |-> NULL, interleave_ways |-> 0,
                 interleave_granularity |-> 0, targets |-> [i \in Slots |-> NULL]]
    /\ driver = [m \in Memdevs |-> TRUE]
    /\ active = FALSE
    /\ staged_list = <<>>
    /\ commit_list = <<>>
    /\ res = NoRes
    /\ rootd \in RootDecoders
    /\ busy = {}
    /\ alloc_rc = "none"
    /\ root_decoders = <<rootd>>
    /\ ours = "unset"
    /\ IdIdle
    /\ dev_lock = "none"
    /\ dev_driver \in BOOLEAN
    /\ visible = 0
    /\ cxled_cxlr = [d \in EndpointDecoders |-> NULL]
    /\ op = "none"
    /\ ret = "0"

NextSetters ==
    \/ interleave_ways_store
    \/ interleave_granularity_store
    \/ uuid_store
    \/ store_targetN
    \/ RegionRelease

SpecSetters == InitSetters /\ [][NextSetters]_vars

\* the step is a setter call that was turned down
Rejected == op' # "release" /\ ret' \notin {"len", "0"}

ValidWaysSet == {1, 2, 3, 4, 6, 8, 12, 16}

\* C18: after any sequence of writes to interleave_ways the region's ways is
\* 0 or one of 1, 2, 3, 4, 6, 8, 12, 16.
C18_WaysInSet ==
    config.interleave_ways \in {0} \cup ValidWaysSet


(***************************************************************************)
(* SpecXhb: region_xhb_config_valid() applied to a region and to the same  *)
(* region with its targets in another order.                               *)
(***************************************************************************)

MaxXhbWays == 3

Perms(n) ==
    {f \in [0..(n - 1) -> 0..(n - 1)] :
        \A a, b \in 0..(n - 1) : a # b => f[a] # f[b]}

\* the region with target i moved to slot f[i]
Permuted(cfg, f) ==
    [cfg EXCEPT !.targets =
        [i \in Slots |->
            IF i < cfg.interleave_ways
            THEN cfg.targets[CHOOSE j \in 0..(cfg.interleave_ways - 1) : f[j] = i]
            ELSE cfg.targets[i]]]

BoolInt(b) == IF b THEN 1 ELSE 0

\* the root decoders the check is tried against: those of the bind, and
\* two-way decoders whose target list names the host bridges in the other
\* order
XhbRootDecoders ==
    RootDecoders \cup
    {[pmem_t3 |-> TRUE, interleave_ways |-> 2, interleave_granularity |-> g,
      target |-> <<1, 0>>] : g \in {256, 512}}

InitXhb ==
    /\ m_fn = "none" /\ m_in = 0 /\ m_out = 0 /\ m_back = 0
    /\ HdmIdle
    /\ \E w \in 1..MaxXhbWays, g \in {256, 512} :
       \E t \in [0..(w - 1) -> Memdevs \ {"mem3"}] :
          config = [size |-> SZ_256M * w, uuid |-> "set",
                    interleave_ways |-> w, interleave_granularity |-> g,
                    targets |-> [i \in Slots |-> IF i < w THEN t[i] ELSE NULL]]
    /\ driver = [m \in Memdevs |-> TRUE]
    /\ active = FALSE
    /\ staged_list = <<>>
    /\ commit_list = <<>>
    /\ res = NoRes
    /\ rootd \in XhbRootDecoders
    /\ busy = {}
    /\ alloc_rc = "none"
    /\ root_decoders = <<rootd>>
    /\ ours = "unset"
    /\ IdIdle
    /\ SetIdle
    /\ op = "none"
    /\ ret = "0"

\* the validity of the region as it is and with its targets reordered
XhbPermute ==
    \E f \in Perms(config.interleave_ways) :
        /\ m_fn' = "xhb"
        /\ m_in' = BoolInt(Permuted(config, f) # config)
        /\ m_out' = BoolInt(region_xhb_config_valid(config, rootd))
        /\ m_back' = BoolInt(region_xhb_config_valid(Permuted(config, f), rootd))
        /\ config' = Permuted(config, f)
        /\ op' = "xhb"
        /\ UNCHANGED <<ret, driver, bindVars, idVars, setVars, hdmVars>>

NextXhb == XhbPermute

SpecXhb == InitXhb /\ [][NextXhb]_vars

C17_NoRootDecoderFailsBind ==
    (op = "probe" /\ ours = NULL /\ ret # "oops") =>
        /\ ret \in {"-ENXIO", "-ENODEV", "-ENOMEM", "-EBUSY"}
        /\ ~active
        /\ \A k \in 1..Len(staged_list) : staged_list[k].port \notin Memdevs


C20_SanitizeFailureChangesNothing ==
    [][(op' = "probe" /\ alloc_rc' = "none" /\ ret' \notin {"0", "oops"}) =>
          /\ res' = res
          /\ staged_list' = staged_list
          /\ config' = config]_vars


(***************************************************************************)
(* cxl_commit_decoder() and cxl_disable_decoder() on decoders in every     *)
(* configuration a caller can hand them, drivers/cxl/core/hdm.c            *)
(***************************************************************************)
\* port ids of the dports the switch decoder's target[] points at
TargetPorts == [i \in 1..TargetCount |-> 2 * i + 1]

\* ways, nr_targets and target[] of the decoder under test: an endpoint
\* decoder has no targets, a switch decoder has target_count of them and
\* decodes fewer, as many, or more ways than that
DecoderShapes ==
    {[ways |-> w, nr_targets |-> 0, target |-> <<>>] : w \in {1, 4}}
    \cup {[ways |-> w, nr_targets |-> TargetCount, target |-> TargetPorts] :
             w \in {1, TargetCount, 2 * TargetCount}}

\* decoder_range of the decoder under test: below and above 4 GiB long
DecoderRanges ==
    {[start |-> INT_WRAP, len |-> 2 * SZ_256M],
     [start |-> SZ_256M, len |-> INT_WRAP + SZ_256M]}

\* SIZE_LOW and SIZE_HIGH as the slot holds them at entry; the last pair is
\* 0xf0000000 and 0x10000000
HwSizes == {<<0, 0>>, <<SZ_256M, 0>>, <<15 * SZ_256M, SZ_256M * MIB>>}

\* the registers of the slot under test at entry
HwCommitInputs ==
    {[HwBlank EXCEPT !.committed = c, !.commit = c,
                     !.size_lo = sz[1], !.size_hi = sz[2], !.tl_lo = tl] :
        c \in BOOLEAN, sz \in HwSizes, tl \in {ZeroTL, <<0, 1, 0, 0>>}}

\* the port is reset: its HDM decoder registers return to their defaults
\* while the driver's decoders keep their flags
HwReset(d) ==
    /\ pc = "idle"
    /\ hw[d] # HwBlank
    /\ hw' = [hw EXCEPT ![d] = HwBlank]
    /\ op' = "reset"
    /\ ret' = "0"
    /\ cur' = d
    /\ writes' = <<>>
    /\ UNCHANGED <<cxld, is_endpoint, pc, elapsed>>
    /\ UNCHANGED <<mathVars, regionVars, enumVars>>

InitCommit ==
    /\ MathIdle
    /\ RegionIdle
    /\ \E d \in Decoders, h \in HwCommitInputs, sh \in DecoderShapes,
          r \in DecoderRanges, en \in BOOLEAN :
        /\ en => h.committed
        /\ hw = [x \in Decoders |-> IF x = d THEN h ELSE HwBlank]
        /\ cxld = [x \in Decoders |->
                     IF x = d
                     THEN [NoDecoder EXCEPT !.present = TRUE, !.enable = en,
                               !.interleave_ways = sh.ways,
                               !.interleave_granularity = 512,
                               !.start = r.start, !.len = r.len,
                               !.expander = TRUE,
                               !.nr_targets = sh.nr_targets,
                               !.target = sh.target]
                     ELSE NoDecoder]
        /\ is_endpoint = (sh.nr_targets = 0)
        /\ cur = d
    /\ pc = "idle"
    /\ elapsed = 0
    /\ writes = <<>>
    /\ enum_log = <<>>
    /\ n_committed = 0
    /\ n_failed = 0
    /\ op = "none"
    /\ ret = "0"

NextCommit ==
    \/ \E d \in Decoders : CommitCall(d)
    \/ HwCommitted
    \/ HwError
    \/ Tick
    \/ Poll
    \/ \E d \in Decoders : Disable(d)
    \/ \E d \in Decoders : HwReset(d)

SpecCommit == InitCommit /\ [][NextCommit]_vars

\* the place of a register in the order target list, size, base, control
WriteRank(reg) ==
    IF reg \in {"TL_HIGH", "TL_LOW"} THEN 1
    ELSE IF reg \in {"SIZE_HIGH", "SIZE_LOW"} THEN 2
    ELSE IF reg \in {"BASE_HIGH", "BASE_LOW"} THEN 3
    ELSE 4

\* the call about to be made is cxl_commit_decoder() on a decoder that
\* passes both precondition checks
CommitPassesChecks ==
    /\ pc = "idle"
    /\ op' = "commit"
    /\ commit_precheck(cxld[cur'], hw[cur']) = "0"

\* C21: every cxl_commit_decoder() that passes its precondition checks
\* writes the target list, then the size, then the base, then the control
\* register; the control register is written exactly once, after every
\* other register, and nothing is written after it until the call returns.
C21_CommitWriteOrder ==
    [][/\ CommitPassesChecks =>
            /\ Cardinality({k \in 1..Len(writes') : writes'[k] = "CTRL"}) = 1
            /\ writes'[Len(writes')] = "CTRL"
            /\ \A j, k \in 1..Len(writes') :
                  j < k => WriteRank(writes'[j]) <= WriteRank(writes'[k])
            /\ \A reg \in {"TL_HIGH", "TL_LOW", "SIZE_HIGH", "SIZE_LOW",
                           "BASE_HIGH", "BASE_LOW"} :
                  \E k \in 1..Len(writes') : writes'[k] = reg
       /\ pc = "wait" => writes' = writes]_vars

\* C22: cxl_commit_decoder() on a decoder whose ENABLE flag is clear, whose
\* control register has the committed bit set and whose 64-bit size register
\* is not zero returns -EBUSY, writes no register and leaves ENABLE clear.
C22_LiveDecoderIsBusy ==
    [][(/\ pc = "idle"
        /\ op' = "commit"
        /\ ~cxld[cur'].enable
        /\ hw[cur'].committed
        /\ ~(hw[cur'].size_lo = 0 /\ hw[cur'].size_hi = 0))
       =>
       (/\ ret' = "-EBUSY"
        /\ writes' = <<>>
        /\ hw' = hw
        /\ ~cxld'[cur'].enable)]_vars

TargetListByte(h, i) == IF i < 4 THEN h.tl_lo[i + 1] ELSE h.tl_hi[i - 3]

\* C24: the target list cxl_commit_decoder() writes has the port id of the
\* decoder's i-th target in byte i for the targets the decoder decodes to,
\* and zero in every byte at or past the decoder's number of targets; for a
\* decoder with no targets every byte is zero.
C24_TargetListPacked ==
    [][(pc = "idle" /\ op' = "commit" /\ pc' = "wait") =>
          \A i \in 0..7 :
              IF i >= cxld[cur'].nr_targets
              THEN TargetListByte(hw'[cur'], i) = 0
              ELSE (i = 0 \/ i < cxld[cur'].interleave_ways) =>
                      TargetListByte(hw'[cur'], i) = cxld[cur'].target[i + 1]]_vars

\* C25: for a decoder range whose start and length are multiples of 256 MiB
\* the size cxl_commit_decoder() writes to SIZE_HIGH:SIZE_LOW is the 64-bit
\* length of the range and the base it writes to BASE_HIGH:BASE_LOW is the
\* 64-bit start of the range.
C25_SizeAndBaseWritten ==
    [][(/\ pc = "idle" /\ op' = "commit" /\ pc' = "wait"
        /\ cxld[cur'].start % SZ_256M = 0
        /\ cxld[cur'].len % SZ_256M = 0)
       =>
       (/\ ioread64_hi_lo(hw'[cur'].size_lo, hw'[cur'].size_hi) = cxld[cur'].len
        /\ ioread64_hi_lo(hw'[cur'].base_lo, hw'[cur'].base_hi) = cxld[cur'].start)]_vars


(***************************************************************************)
(* Enumeration of a port's HDM decoders, step by step:                     *)
(* devm_cxl_enumerate_decoders() of drivers/cxl/core/hdm.c and the older   *)
(* enumerate_hdm_decoders() of drivers/cxl/port.c                          *)
(***************************************************************************)
SETTLE_MS == 20         \* msleep(20)
NO_TARGET == -1         \* a target[] entry that was never populated

\* a register read or a delay of the enumeration
LogEntry(ev, arg, bit) == [ev |-> ev, arg |-> arg, bit |-> bit]

\* a delay that is never taken
needs_settle_never(count) == FALSE

\* "if (committed != cxlhdm->decoder_count) msleep(20)"
needs_settle(count) == count # NumSlots

\* devm_cxl_enumerate_decoders(): the first loop reads the control register
\* of every slot once and counts the committed ones
EnumSample ==
    /\ pc = "boot"
    /\ n_committed' = Cardinality({d \in Decoders : hw[d].committed})
    /\ enum_log' = [k \in 1..NumSlots |-> LogEntry("sample", k - 1, hw[k - 1].committed)]
    /\ pc' = IF needs_settle(n_committed') THEN "msleep" ELSE "slots"
    /\ cur' = 0
    /\ n_failed' = 0
    /\ op' = "enumerate"
    /\ ret' = "pending"
    /\ UNCHANGED <<hw, cxld, is_endpoint, elapsed, writes>>
    /\ UNCHANGED <<mathVars, regionVars>>

\* while the driver sleeps the hardware finishes a commit that was asked
\* of it before the registers were claimed
HwSettle(d) ==
    /\ pc = "msleep"
    /\ hw[d].commit /\ ~hw[d].committed /\ ~hw[d].error
    /\ hw' = [hw EXCEPT ![d].committed = TRUE]
    /\ UNCHANGED <<cxld, is_endpoint, pc, cur, elapsed, writes, enumVars, op, ret>>
    /\ UNCHANGED <<mathVars, regionVars>>

\* msleep(20) ends
EnumWake ==
    /\ pc = "msleep"
    /\ enum_log' = Append(enum_log, LogEntry("msleep", SETTLE_MS, FALSE))
    /\ elapsed' = SETTLE_MS
    /\ pc' = "slots"
    /\ UNCHANGED <<hw, cxld, is_endpoint, cur, writes, n_committed, n_failed, op, ret>>
    /\ UNCHANGED <<mathVars, regionVars>>

\* what the allocation and the registration of one decoder can do
EnumOutcomes == {"ok", "alloc", "add"}

\* one turn of the second loop of devm_cxl_enumerate_decoders()
EnumSlot ==
    /\ pc = "slots"
    /\ cur < NumSlots
    /\ \E out \in EnumOutcomes :
        LET built == init_hdm_decoder(hw[cur], is_endpoint) IN
        IF out = "alloc"
        THEN /\ ret' = "-ENOMEM"
             /\ pc' = "idle"
             /\ enum_log' = Append(enum_log, LogEntry("alloc_fail", cur, FALSE))
             /\ UNCHANGED <<cxld, cur, n_failed>>
        ELSE IF built.rc # "0"
        THEN /\ out = "ok"
             /\ n_failed' = n_failed + 1
             /\ cur' = cur + 1
             /\ enum_log' = Append(enum_log, LogEntry("decode", cur, hw[cur].committed))
             /\ UNCHANGED <<cxld, pc, ret>>
        ELSE IF out = "add"
        THEN /\ ret' = "-ENOMEM"
             /\ pc' = "idle"
             /\ enum_log' = Append(Append(enum_log,
                                LogEntry("decode", cur, hw[cur].committed)),
                                LogEntry("add_fail", cur, FALSE))
             /\ UNCHANGED <<cxld, cur, n_failed>>
        ELSE /\ cxld' = [cxld EXCEPT ![cur] = built.decoder]
             /\ cur' = cur + 1
             /\ enum_log' = Append(enum_log, LogEntry("decode", cur, hw[cur].committed))
             /\ UNCHANGED <<pc, ret, n_failed>>
    /\ UNCHANGED <<hw, is_endpoint, elapsed, writes, n_committed, op>>
    /\ UNCHANGED <<mathVars, regionVars>>

\* devm_cxl_enumerate_decoders() after its second loop
EnumReturn ==
    /\ pc = "slots"
    /\ cur = NumSlots
    /\ ret' = IF n_failed = NumSlots THEN "-ENXIO" ELSE "0"
    /\ pc' = "idle"
    /\ UNCHANGED <<hw, cxld, is_endpoint, cur, elapsed, writes, enumVars, op>>
    /\ UNCHANGED <<mathVars, regionVars>>

\* port.c: the size of a slot, 0 for a slot whose committed bit is set
get_decoder_size(h) ==
    IF h.committed THEN 0 ELSE ioread64_hi_lo(h.size_lo, h.size_hi)

\* port.c: ways and granularity as enumerate_hdm_decoders() decodes them
cxl_hdm_decoder_iw(h) == Pow2(h.iw)
cxl_hdm_decoder_ig(h) == 8 + h.ig

PortOutcomes == {"ok", "alloc", "cfmws", "request", "add"}
\* what an element of temp[] that was never written holds
StackJunk == {0, 7}

\* port.c: the decoder enumerate_hdm_decoders() builds for a slot of
\* nonzero size; target_map[j] is byte j of the target list for j below the
\* ways and the unwritten temp[j] from there on
port_decoder(h, endpoint, junk) ==
    LET ways == cxl_hdm_decoder_iw(h)
        target_list == h.tl_lo \o h.tl_hi
    IN
    [present |-> TRUE, enable |-> TRUE, lock |-> FALSE,
     interleave_ways |-> ways,
     interleave_granularity |-> cxl_hdm_decoder_ig(h),
     start |-> ioread64_hi_lo(h.base_lo, h.base_hi),
     len |-> get_decoder_size(h),
     expander |-> h.type,
     nr_targets |-> IF endpoint THEN 0 ELSE TargetCount,
     target |-> IF endpoint THEN <<>>
                ELSE [i \in 1..TargetCount |->
                        IF i <= ways THEN target_list[i] ELSE junk]]

\* port.c: the decoder of a slot of size 0, added with no target map
port_decoder_empty(endpoint) ==
    [NoDecoder EXCEPT !.present = TRUE, !.interleave_ways = 1, !.expander = TRUE,
                      !.nr_targets = IF endpoint THEN 0 ELSE TargetCount,
                      !.target = IF endpoint THEN <<>>
                                 ELSE [i \in 1..TargetCount |-> NO_TARGET]]

\* port.c: one turn of the loop of enumerate_hdm_decoders().  A slot whose
\* ways exceed CXL_DECODER_MAX_INTERLEAVE makes the loop at port.c:182 write
\* past temp[]: the call faults or goes on.
PortEnumSlot ==
    /\ pc \in {"boot", "port"}
    /\ cur < NumSlots
    /\ op' = "port_enumerate"
    /\ \E out \in PortOutcomes, junk \in StackJunk, smash \in BOOLEAN :
        LET h == hw[cur]
            log == Append(enum_log, LogEntry("decode", cur, h.committed))
        IN
        IF out = "alloc"
        THEN /\ ret' = "-ENOMEM"
             /\ pc' = "idle"
             /\ enum_log' = Append(enum_log, LogEntry("alloc_fail", cur, FALSE))
             /\ UNCHANGED <<cxld, cur>>
        ELSE IF get_decoder_size(h) = 0
        THEN /\ out \in {"ok", "add"}
             /\ cxld' = IF out = "ok"
                        THEN [cxld EXCEPT ![cur] = port_decoder_empty(is_endpoint)]
                        ELSE cxld
             /\ cur' = cur + 1
             /\ pc' = "port"
             /\ ret' = "pending"
             /\ enum_log' = log
        ELSE IF out \in {"cfmws", "request"}
        THEN /\ cur' = cur + 1
             /\ pc' = "port"
             /\ ret' = "pending"
             /\ enum_log' = log
             /\ UNCHANGED cxld
        ELSE IF cxl_hdm_decoder_iw(h) > CXL_DECODER_MAX_INTERLEAVE /\ smash
        THEN /\ ret' = "oops"
             /\ pc' = "idle"
             /\ enum_log' = log
             /\ UNCHANGED <<cxld, cur>>
        ELSE /\ cxld' = IF out = "ok"
                        THEN [cxld EXCEPT ![cur] = port_decoder(h, is_endpoint, junk)]
                        ELSE cxld
             /\ cur' = cur + 1
             /\ pc' = "port"
             /\ ret' = "pending"
             /\ enum_log' = log
    /\ UNCHANGED <<hw, is_endpoint, elapsed, writes, n_committed, n_failed>>
    /\ UNCHANGED <<mathVars, regionVars>>

\* port.c: enumerate_hdm_decoders() returns 0 after its loop
PortEnumReturn ==
    /\ pc = "port"
    /\ cur = NumSlots
    /\ ret' = "0"
    /\ pc' = "idle"
    /\ UNCHANGED <<hw, cxld, is_endpoint, cur, elapsed, writes, enumVars, op>>
    /\ UNCHANGED <<mathVars, regionVars>>

\* the registers of the slot the enumeration is tried on: as firmware or a
\* reset leaves them, with all-ones in base or size, with a target list
\* and a size left behind uncommitted, with a commit still in flight, and
\* with every encoding of the ways
HwEnumInputs ==
    {HwBlank, HwFirmware, HwLocked, HwCorrupt,
     [HwBlank EXCEPT !.size_lo = ALL_ONES, !.size_hi = ALL_ONES],
     [HwFirmware EXCEPT !.size_lo = ALL_ONES, !.size_hi = ALL_ONES],
     [HwBlank EXCEPT !.iw = 1, !.tl_lo = <<4, 6, 0, 0>>],
     [HwBlank EXCEPT !.iw = 1, !.tl_lo = <<4, 6, 0, 0>>, !.size_lo = SZ_256M],
     [HwBlank EXCEPT !.iw = 5, !.size_lo = SZ_256M],
     [HwBlank EXCEPT !.iw = 1, !.tl_lo = <<4, 6, 0, 0>>, !.size_lo = SZ_256M,
                     !.commit = TRUE]}
    \cup {[HwBlank EXCEPT !.iw = e] : e \in 0..15}

\* the registers of the other slots
HwEnumOthers == {HwBlank, HwFirmware, HwCorrupt}

InitEnum ==
    /\ MathIdle
    /\ RegionIdle
    /\ \E d \in Decoders, h \in HwEnumInputs, others \in [Decoders -> HwEnumOthers] :
        hw = [x \in Decoders |-> IF x = d THEN h ELSE others[x]]
    /\ cxld = [d \in Decoders |-> NoDecoder]
    /\ is_endpoint \in BOOLEAN
    /\ pc = "boot"
    /\ cur = 0
    /\ elapsed = 0
    /\ writes = <<>>
    /\ enum_log = <<>>
    /\ n_committed = 0
    /\ n_failed = 0
    /\ op = "none"
    /\ ret = "0"

NextEnum ==
    \/ EnumSample
    \/ \E d \in Decoders : HwSettle(d)
    \/ EnumWake
    \/ EnumSlot
    \/ EnumReturn
    \/ PortEnumSlot
    \/ PortEnumReturn

SpecEnum == InitEnum /\ [][NextEnum]_vars

\* where in the log the events of a kind are
LogPlaces(ev) == {k \in 1..Len(enum_log) : enum_log[k].ev = ev}

\* devm_cxl_enumerate_decoders() has gone past its delay, or has returned
Sampled == op = "enumerate" /\ pc \in {"slots", "idle"}

\* devm_cxl_enumerate_decoders() returned after every allocation and
\* registration succeeded
Enumerated ==
    /\ op = "enumerate"
    /\ pc = "idle"
    /\ LogPlaces("alloc_fail") = {}
    /\ LogPlaces("add_fail") = {}

\* C26: devm_cxl_enumerate_decoders() reads the committed bit of every slot
\* once, in slot order, before it builds any decoder; it sleeps once, for
\* 20 ms (twice the 10 ms commit timeout), exactly when one of the bits it
\* read was clear, and not at all when all were set; the sleep comes before
\* every per-slot register decode.
C26_SettleDelay ==
    /\ [][(pc = "boot" /\ op' = "enumerate") =>
            \A d \in Decoders :
                enum_log'[d + 1] = LogEntry("sample", d, hw[d].committed)]_vars
    /\ [](Sampled =>
            /\ LogPlaces("sample") = 1..NumSlots
            /\ \A k \in LogPlaces("decode") : k > NumSlots
            /\ IF \E k \in 1..NumSlots : ~enum_log[k].bit
               THEN /\ Cardinality(LogPlaces("msleep")) = 1
                    /\ \A k \in LogPlaces("msleep") :
                          /\ enum_log[k].arg = 2 * COMMIT_TIMEOUT_MS
                          /\ \A j \in LogPlaces("decode") : k < j
               ELSE LogPlaces("msleep") = {})

\* an enumeration that slept has returned: one slot was sampled as
\* committed and another as not
C26_Witness ==
    /\ Enumerated
    /\ Cardinality(LogPlaces("msleep")) = 1
    /\ \E j, k \in 1..NumSlots : enum_log[j].bit /\ ~enum_log[k].bit
    /\ LogPlaces("decode") # {}

\* init_hdm_decoder() read the slot's registers as a decoder
SlotBuilt(d) == cxld[d].present

\* C27 as the specification states it: a slot whose base or size register
\* reads as all-ones yields no decoder, the other slots are still
\* enumerated, and enumeration returns an error exactly when the
\* initialization of every slot failed.
C27_AllOnesSlotFails ==
    Enumerated =>
        /\ \A d \in Decoders :
              (\/ ioread64_hi_lo(hw[d].base_lo, hw[d].base_hi) = ALL_ONES
               \/ ioread64_hi_lo(hw[d].size_lo, hw[d].size_hi) = ALL_ONES)
                 => ~SlotBuilt(d)
        /\ LogPlaces("decode") = (NumSlots + Cardinality(LogPlaces("msleep")) + 1)
                                   ..Len(enum_log)
        /\ Cardinality(LogPlaces("decode")) = NumSlots
        /\ (ret # "0") <=> (\A d \in Decoders : ~SlotBuilt(d))

\* C27, as the code does it: a slot yields no decoder exactly when its base
\* register reads as all-ones, or its committed bit is set and its size
\* register reads as all-ones, or its ways encoding is invalid (the size of
\* a slot that is not committed is taken as 0 whatever the register holds);
\* the other slots are still enumerated, and enumeration returns -ENXIO
\* exactly when the initialization of every slot failed, 0 otherwise.
C27_CorruptSlotFails ==
    Enumerated =>
        /\ \A d \in Decoders :
              ~SlotBuilt(d) <=>
                 \/ ioread64_hi_lo(hw[d].base_lo, hw[d].base_hi) = ALL_ONES
                 \/ /\ hw[d].committed
                    /\ ioread64_hi_lo(hw[d].size_lo, hw[d].size_hi) = ALL_ONES
                 \/ cxl_to_interleave_ways(hw[d].iw) = 0
        /\ LogPlaces("decode") = (NumSlots + Cardinality(LogPlaces("msleep")) + 1)
                                   ..Len(enum_log)
        /\ Cardinality(LogPlaces("decode")) = NumSlots
        /\ n_failed = Cardinality({d \in Decoders : ~SlotBuilt(d)})
        /\ ret = IF \A d \in Decoders : ~SlotBuilt(d) THEN "-ENXIO" ELSE "0"

\* a slot with all-ones in its base failed while another slot was built,
\* and the enumeration returned 0
C27_Witness ==
    /\ Enumerated
    /\ ret = "0"
    /\ \E d \in Decoders :
          /\ ioread64_hi_lo(hw[d].base_lo, hw[d].base_hi) = ALL_ONES
          /\ ~SlotBuilt(d)
    /\ \E d \in Decoders : SlotBuilt(d)

\* C28: after the enumeration of a non-endpoint port, the decoder of a slot
\* whose committed bit is clear has no target id taken from the slot's
\* target-list register.
C28_UncommittedTargetsNotRead ==
    (pc = "idle" /\ op \in {"enumerate", "port_enumerate"} /\ ~is_endpoint) =>
        \A d \in Decoders :
            (SlotBuilt(d) /\ ~hw[d].committed) =>
                \A i \in 1..Len(cxld[d].target) :
                    ~(/\ i <= cxld[d].interleave_ways
                      /\ TargetListByte(hw[d], i - 1) # 0
                      /\ cxld[d].target[i] = TargetListByte(hw[d], i - 1))

\* C29: cxl_to_interleave_ways() returns 1 << e for the encodings 0..4,
\* 3 << (e - 8) for 8..10 and 0 for every other 8-bit encoding, and a slot
\* whose control register holds an encoding that decodes to 0 fails
\* initialization: the enumeration builds no decoder for it and counts it
\* as failed.
C29_WaysDecoding ==
    /\ \A e \in 0..255 :
          cxl_to_interleave_ways(e) =
             IF e <= 4 THEN Pow2(e)
             ELSE IF e >= 8 /\ e <= 10 THEN 3 * Pow2(e - 8)
             ELSE 0
    /\ Enumerated =>
          \A d \in Decoders :
              hw[d].iw \in (5..7) \cup (11..15) =>
                  /\ ~SlotBuilt(d)
                  /\ n_failed >= 1
                  /\ init_hdm_decoder(hw[d], is_endpoint).rc = "-ENXIO"

\* the enumeration met a slot with an undefined ways encoding and healthy
\* base and size, and built no decoder for it
C29_Witness ==
    /\ Enumerated
    /\ \E d \in Decoders :
          /\ hw[d].iw \in (5..7) \cup (11..15)
          /\ ioread64_hi_lo(hw[d].base_lo, hw[d].base_hi) # ALL_ONES
          /\ ~SlotBuilt(d)
          /\ n_failed >= 1


(***************************************************************************)
(* C30, checked under SpecXhb: m_back is the result of                     *)
(* region_xhb_config_valid() for the region as it now stands.              *)
(***************************************************************************)

\* the host bridges above the region's endpoints
RegionHostbridges ==
    {get_hostbridge(config.targets[i]) : i \in EndpointIdx(config)}

\* the root decoder's granularity exponent is below the region's, or
\* 2^(root_ig - region_ig) * 2^(root_eniw) exceeds the region's ways
XhbRatioExceeded ==
    LET root_ig == cxl_to_ig(rootd.interleave_granularity)
        root_eniw == cxl_to_eniw(rootd.interleave_ways)
        region_ig == cxl_to_ig(config.interleave_granularity)
    IN
    IF root_ig < region_ig THEN TRUE
    ELSE Pow2(root_ig - region_ig) * Pow2(root_eniw) > config.interleave_ways

\* C30: region_xhb_config_valid() returns true for every region whose
\* endpoints are all under one host bridge; for a region that spans two or
\* more host bridges it returns false whenever the root decoder's
\* granularity exponent is below the region's or
\* 2^(root_ig - region_ig) * 2^(root_eniw) exceeds the region's ways.
C30_XhbValidity ==
    (m_fn = "xhb") =>
        /\ (Cardinality(RegionHostbridges) = 1) => (m_back = 1)
        /\ (Cardinality(RegionHostbridges) >= 2 /\ XhbRatioExceeded) => (m_back = 0)

\* a region across both host bridges, at a granularity no coarser than the
\* root decoder's, that the ratio test rejects
C30_Witness ==
    /\ m_fn = "xhb"
    /\ Cardinality(RegionHostbridges) = 2
    /\ cxl_to_ig(rootd.interleave_granularity) > cxl_to_ig(config.interleave_granularity)
    /\ XhbRatioExceeded
    /\ m_back = 0



\* the position value the target at index i of the root decoder must carry:
\* (i >> (root_ig - region_ig)) & (2^root_eniw - 1)
XhbPosition(i) ==
    LET root_ig == cxl_to_ig(rootd.interleave_granularity)
        root_eniw == cxl_to_eniw(rootd.interleave_ways)
        region_ig == cxl_to_ig(config.interleave_granularity)
    IN (i \div Pow2(root_ig - region_ig)) % Pow2(root_eniw)

\* C31: for a region spanning two or more host bridges,
\* region_xhb_config_valid() examines every target of the root decoder,
\* index 0 to nr_targets - 1, and returns false whenever the port id of
\* some target differs from the masked position value of its index.
C31_XhbEveryTargetChecked ==
    (/\ m_fn = "xhb"
     /\ Cardinality(RegionHostbridges) >= 2
     /\ ~XhbRatioExceeded
     /\ \E i \in 0..(Len(rootd.target) - 1) : rootd.target[i + 1] # XhbPosition(i))
        => (m_back = 0)



(***************************************************************************)
(* SpecHbRp: region_hb_rp_config_valid() called on a region, with and      *)
(* without state_update, any number of times.                              *)
(***************************************************************************)

\* the target lists the check is tried on: one endpoint, two endpoints on
\* one root port, on two root ports of one host bridge, on two host
\* bridges, behind a switch, and four-way lists in and out of grouping
HbRpTargets ==
    {<<"mem0">>, <<"mem2">>, <<"mem3">>,
     <<"mem0", "mem0">>, <<"mem0", "mem1">>, <<"mem0", "mem2">>, <<"mem0", "mem3">>,
     <<"mem0", "mem0", "mem2", "mem2">>, <<"mem0", "mem2", "mem0", "mem2">>}

\* cxlr->res after allocate_address_space() succeeded
HbRpRes(cfg) == [pool |-> TRUE, reserved |-> TRUE, start |-> INT_WRAP, size |-> cfg.size]

InitHbRp ==
    /\ MathIdle
    /\ HdmIdle
    /\ \E t \in HbRpTargets, g \in {256, 512} :
        config = [size |-> SZ_256M * Len(t), uuid |-> "set",
                  interleave_ways |-> Len(t), interleave_granularity |-> g,
                  targets |-> [i \in Slots |-> IF i < Len(t) THEN t[i + 1] ELSE NULL]]
    /\ driver = [m \in Memdevs |-> TRUE]
    /\ active = FALSE
    /\ staged_list = <<>>
    /\ commit_list = <<>>
    /\ res = HbRpRes(config)
    /\ rootd \in RootDecoders
    /\ busy \in {{}, AllOf("hb0"), AllOf("hb1")}
    /\ alloc_rc = "0"
    /\ root_decoders = <<rootd>>
    /\ ours = "unset"
    /\ IdIdle
    /\ SetIdle
    /\ op = "none"
    /\ ret = "none"

\* region_hb_rp_config_valid(cxlr, rootd, state_update); m_in records
\* state_update, ret the value returned
HbRpCall ==
    /\ ret # "oops"
    /\ \E state_update \in BOOLEAN :
        LET st0 == [staged |-> staged_list, busy |-> busy,
                    fail |-> FALSE, corrupt |-> FALSE]
            out == TheOne({region_hb_rp_config_valid(config, st0, state_update, res)})
        IN
        /\ op' = "hb_rp"
        /\ m_in' = BoolInt(state_update)
        /\ ret' = IF out.st.corrupt THEN "oops"
                  ELSE IF out.ok THEN "true" ELSE "false"
        /\ staged_list' = out.st.staged
        /\ busy' = out.st.busy
    /\ UNCHANGED <<m_fn, m_out, m_back, config, driver, active, commit_list, res,
                   rootd, alloc_rc, root_decoders, ours>>
    /\ UNCHANGED <<idVars, setVars, hdmVars>>

NextHbRp == HbRpCall

SpecHbRp == InitHbRp /\ [][NextHbRp]_vars

OneRootPort ==
    /\ ~has_switch(config)
    /\ Cardinality(RegionHostbridges) = 1
    /\ get_num_root_ports(config) = 1

\* the decoder simple_config() is to leave at the tail of the staged list:
\* decoder id of the region's host bridge, ways 1, the region's
\* granularity, the region's reserved range, target[0] the root port
SimpleDecoder(id) ==
    [NewEntry(get_hostbridge(config.targets[0]), id, res) EXCEPT
        !.interleave_ways = 1,
        !.interleave_granularity = config.interleave_granularity,
        !.target = <<get_rp(config.targets[0])>>]

\* the decoders of the region's host bridge that nobody holds
FreeOnHostbridge ==
    {i \in DecoderIds : <<get_hostbridge(config.targets[0]), i>> \notin busy}

\* C33 as the specification states it: for a region on one host bridge and
\* one root port (no switch), region_hb_rp_config_valid() with state_update
\* set returns true having staged exactly one decoder, on that host bridge,
\* with ways 1, the region's granularity, the region's reserved range and
\* target[0] the root port.
C33_SimpleConfigAlwaysStages ==
    [][(OneRootPort /\ m_in' = 1) =>
          /\ ret' = "true"
          /\ \E id \in DecoderIds :
                staged_list' = Append(staged_list, SimpleDecoder(id))]_vars

\* C33 as the code has it: the same, provided cxl_get_decoder() can hand
\* out a decoder of the host bridge; when it cannot the call returns false
\* and stages nothing.
C33_SimpleConfigStages ==
    [][(OneRootPort /\ m_in' = 1) =>
          IF FreeOnHostbridge # {}
          THEN /\ ret' = "true"
               /\ \E id \in FreeOnHostbridge :
                    /\ staged_list' = Append(staged_list, SimpleDecoder(id))
                    /\ busy' = busy \cup {<<get_hostbridge(config.targets[0]), id>>}
          ELSE /\ ret' = "false"
               /\ staged_list' = staged_list
               /\ busy' = busy]_vars

\* a call with state_update set has staged the one decoder of a
\* two-endpoint region below one root port
C33_Witness ==
    /\ op = "hb_rp"
    /\ m_in = 1
    /\ ret = "true"
    /\ OneRootPort
    /\ config.interleave_ways = 2
    /\ Len(staged_list) = 1
    /\ staged_list[1] = SimpleDecoder(0)


(***************************************************************************)
(* C34 and C37, checked under Spec: the staged list across binds           *)
(***************************************************************************)

\* C34: every decoder on the region's staged list, staged by
\* simple_config(), by the host-bridge loop of region_hb_rp_config_valid()
\* or by collect_ep_decoders(), has interleave ways in {1,2,3,4,6,8,12,16}
\* and the region's granularity.
C34_StagedWaysAndGranularity ==
    (ret # "oops") =>
        \A k \in 1..Len(staged_list) :
            /\ staged_list[k].interleave_ways \in ValidWaysSet
            /\ staged_list[k].interleave_granularity = config.interleave_granularity


\* C37: across any sequence of binds of the region, failed ones included,
\* each decoder taken with cxl_get_decoder() is released with
\* cxl_put_decoder() exactly once, and no decoder that was released is
\* still linked on the region's staged list.
C37_ReleasedDecodersUnlinked ==
    \A k \in 1..Len(staged_list) : staged_list[k].puts = 0


(***************************************************************************)
(* C35, checked under SpecSetters                                          *)
(***************************************************************************)

\* the values the granularity test is tried on
GranProbed ==
    GranStored \cup {0, 1, 2, 255, 257, 768, 1024, 8192, 16384, 16385, 49152, 65536}

\* g is a power of two, at most 16384, and not above the root decoder's
\* granularity
GranularityAllowed(rd, g) ==
    /\ \E e \in 0..16 : g = Pow2(e)
    /\ g <= 16384
    /\ rd.interleave_granularity >= g

\* C35: cxl_is_interleave_granularity_valid(rootd, g) is true if and only
\* if g is a power of two, g is at most 16384 and the root decoder's
\* granularity is at least g; a write to interleave_granularity stores g
\* only when the predicate is true.
C35_GranularityValid ==
    /\ [](\A g \in GranProbed :
            rootd_interleave_granularity_valid(rootd, g) <=> GranularityAllowed(rootd, g))
    /\ [][(op' = "interleave_granularity"
           /\ config'.interleave_granularity # config.interleave_granularity) =>
              /\ ret' = "len"
              /\ GranularityAllowed(rootd, config'.interleave_granularity)]_vars
    /\ [][(op' = "interleave_granularity" /\ ret' = "len") =>
              GranularityAllowed(rootd, config'.interleave_granularity)]_vars

\* a write of 512 under a root decoder of granularity 512 was stored
C35_Witness ==
    /\ op = "interleave_granularity"
    /\ ret = "len"
    /\ rootd.interleave_granularity = 512
    /\ config.interleave_granularity = 512


\* C36: every return path of store_targetN(), success and each error
\* (region bound, slot already set, device not found, not a decoder, not an
\* endpoint decoder, decoder already enabled), releases the region's device
\* lock, so that a later setter or bind is not blocked.
C36_TargetStoreUnlocks ==
    (op = "target") => (dev_lock = "none")


(***************************************************************************)
(* C39, checked under SpecIds                                              *)
(***************************************************************************)

\* C39: create_pmem_region_store() returns the written length only if a
\* region device was allocated and registered by the call; when the
\* allocation or the registration fails, or the id presented is not
\* next_region_id, it returns an error.
C39_CreateSuccessMeansRegion ==
    [][(op' = "create" /\ ret' = "len") =>
          /\ Len(regions') = Len(regions) + 1
          /\ regions'[Len(regions')].registered
          /\ ~regions'[Len(regions')].freed]_vars


(***************************************************************************)
(* SpecCreate: create_region_show(), create_region_store() and             *)
(* delete_region_store() of drivers/cxl/core/region.c.  ida is the root    *)
(* decoder's region_ida; a region object counts in frees the kfree() calls *)
(* made on it and in id_frees the ida_free() calls made for its id.        *)
(***************************************************************************)

\* cxl_alloc_region(): kzalloc() and cxlr->id = id
cxl_alloc_region(id) ==
    [id |-> id, refs |-> 0, registered |-> FALSE, added |-> FALSE,
     frees |-> 0, id_frees |-> 0]

\* cxl_region_release() of core/region.c: ida_free() of the id, kfree() of
\* the object
core_region_release(ids, r) ==
    [ida |-> ids \ {r.id},
     region |-> [r EXCEPT !.id_frees = @ + 1, !.frees = @ + 1]]

\* put_device() on a region object: the last reference releases it
core_put_device(ids, r) ==
    IF r.refs = 1 THEN core_region_release(ids, [r EXCEPT !.refs = 0])
    ELSE [ida |-> ids, region |-> [r EXCEPT !.refs = @ - 1]]

AddFailures == {"none", "name", "add"}

\* cxl_add_region(): device_initialize() takes the first reference,
\* device_add() two more; a failure of dev_set_name() or device_add() puts
\* the device
cxl_add_region(ids, r, fail) ==
    LET inited == [r EXCEPT !.refs = 1] IN
    IF fail = "none"
    THEN [rc |-> "0", ida |-> ids,
          region |-> [inited EXCEPT !.refs = 3, !.registered = TRUE, !.added = TRUE]]
    ELSE LET p == core_put_device(ids, inited) IN
         [rc |-> "-ENOMEM", ida |-> p.ida, region |-> p.region]

CreateFrame ==
    UNCHANGED <<mathVars, hdmVars, config, driver, bindVars, setVars, next_region_id>>

\* create_region_show(): ida_alloc() hands out an id for the next region
CreateRegionShow ==
    /\ ret # "oops"
    /\ op' = "create_region_show"
    /\ IF memregion_alloc(ida) = NO_ID
       THEN ret' = "-ENOMEM" /\ UNCHANGED ida
       ELSE ret' = "id" /\ ida' = ida \cup {memregion_alloc(ida)}
    /\ UNCHANGED regions
    /\ CreateFrame

\* what the second kfree() of an object can do: pass unnoticed or crash
DoubleFree == {"silent", "oops"}

\* create_region_store(): a name that does not parse or names another
\* decoder is -EINVAL; when cxl_add_region() fails the object is kfree()d
\* after the put_device() of cxl_add_region() released it
CreateRegionStore ==
    /\ ret # "oops"
    /\ Len(regions) < MaxRegions
    /\ \E parsed \in BOOLEAN, kzalloc \in BOOLEAN, region_id \in RegionIds,
          fail \in AddFailures, df \in DoubleFree :
          /\ op' = "create_region"
          /\ IF ~parsed THEN ret' = "-EINVAL" /\ UNCHANGED <<ida, regions>>
             ELSE IF ~kzalloc THEN ret' = "-ENOMEM" /\ UNCHANGED <<ida, regions>>
             ELSE LET a == cxl_add_region(ida, cxl_alloc_region(region_id), fail) IN
                  IF a.rc = "0"
                  THEN /\ ret' = "len"
                       /\ ida' = a.ida
                       /\ regions' = Append(regions, a.region)
                  ELSE /\ ida' = a.ida
                       /\ regions' = Append(regions, [a.region EXCEPT !.frees = @ + 1])
                       /\ ret' = IF a.region.frees > 0 /\ df = "oops"
                                 THEN "oops" ELSE a.rc
    /\ CreateFrame

\* delete_region_store(): cxl_delete_region() finds the region by name
\* (one more reference), unregisters it and puts the reference of the lookup
DeleteRegionStore ==
    /\ ret # "oops"
    /\ \E region_id \in RegionIds :
          LET found == {k \in 1..Len(regions) :
                          regions[k].registered /\ regions[k].id = region_id}
          IN
          /\ op' = "delete_region"
          /\ IF found = {}
             THEN ret' = "-ENOENT" /\ UNCHANGED <<ida, regions>>
             ELSE LET k == MinOf(found)
                      r0 == [regions[k] EXCEPT !.refs = @ + 1]
                      r1 == [r0 EXCEPT !.registered = FALSE, !.refs = @ - 2]
                      p1 == core_put_device(ida, r1)
                      p2 == core_put_device(p1.ida, p1.region)
                  IN  /\ ret' = "len"
                      /\ ida' = p2.ida
                      /\ regions' = [regions EXCEPT ![k] = p2.region]
    /\ CreateFrame

InitCreate ==
    /\ MathIdle
    /\ HdmIdle
    /\ config = [size |-> 0, uuid |-> NULL, interleave_ways |-> 0,
                 interleave_granularity |-> 0, targets |-> [i \in Slots |-> NULL]]
    /\ driver = [m \in Memdevs |-> TRUE]
    /\ active = FALSE
    /\ staged_list = <<>>
    /\ commit_list = <<>>
    /\ res = NoRes
    /\ rootd = [pmem_t3 |-> TRUE, interleave_ways |-> 1,
                interleave_granularity |-> 256, target |-> <<0>>]
    /\ busy = {}
    /\ alloc_rc = "none"
    /\ root_decoders = <<rootd>>
    /\ ours = "unset"
    /\ SetIdle
    /\ ida = {}
    /\ next_region_id = 0
    /\ regions = <<>>
    /\ op = "none"
    /\ ret = "0"

NextCreate == CreateRegionShow \/ CreateRegionStore \/ DeleteRegionStore

SpecCreate == InitCreate /\ [][NextCreate]_vars

\* C40: when registering a newly allocated region fails in
\* create_region_store() (cxl_add_region() returns an error), the region
\* object is freed exactly once and its id is returned to the root
\* decoder's id allocator exactly once.
C40_FailedAddFreesOnce ==
    \A k \in 1..Len(regions) :
        ~regions[k].added => (regions[k].frees = 1 /\ regions[k].id_frees = 1)


(***************************************************************************)
(* C38, checked under SpecSetters                                          *)
(***************************************************************************)

\* the target slots of the region that hold endpoint decoder d
SlotsOf(d) == {n \in Slots : config.targets[n] = d}

\* C38: after any sequence of target writes and target removals an
\* endpoint decoder occupies at most one target slot, and cxled->cxlr names
\* the region that holds the slot when it occupies one and is NULL when it
\* occupies none.
C38_DecoderInOneSlot ==
    (ret # "oops") =>
        \A d \in EndpointDecoders :
            /\ Cardinality(SlotsOf(d)) <= 1
            /\ (SlotsOf(d) # {}) => (cxled_cxlr[d] = THE_REGION)
            /\ (SlotsOf(d) = {}) => (cxled_cxlr[d] = NULL)

=============================================================================
